---- MODULE Spec2Model ----
(***************************************************************************)
(* Versioned reference libraries of GenBank accessions                     *)
(* (barcode_blastn/controllers/blastdb_controller.py, models.py,           *)
(* helper/parse_gb.py).                                                    *)
(*                                                                         *)
(* State: the BlastDb rows (locked flag, version triple), the              *)
(* NuccoreSequence rows of each BlastDb, the class-level lists of          *)
(* SequenceUpdateSummary, and the outcome of the most recent call, with    *)
(* the change-log entries it persisted and the build it ran.               *)
(* Two further variables follow calls step by step: the                   *)
(* add_sequences_to_database calls waiting on the registry, and the        *)
(* requests and responses of one retrieve_gb call.                         *)
(***************************************************************************)
EXTENDS Integers, Sequences, FiniteSets, TLC

\* ---------------------------------------------------------------- bounds
\* Number of BlastDb rows (snapshots) of the model.
NumDbs == 2
\* Accession numbers are 1..MaxAcc (they stand for "A1", "A2", ...).
MaxAcc == 1
\* GenBank answers with one of the revisions 1..NumRevisions of a record.
NumRevisions == 2
\* Versions are followed while their components sum to at most MaxVersion.
MaxVersion == 2
\* Entries the class-level summary lists may hold in total.
MaxSummary == 1

\* Callers that run at the same time.
NumWorkers == 2

Dbs == 1..NumDbs
Workers == 1..NumWorkers
Acc == 1..MaxAcc
Revisions == 1..NumRevisions

\* ------------------------------------------------------------ data model
\* BlastDb.library: snapshots 1 and 2 belong to library 1, later ones to 2.
LibraryOf(d) == IF d <= 2 THEN 1 ELSE 2

\* Field defaults of a BlastDb row (genbank_version, major_version,
\* minor_version default to 1; locked defaults to False).
DefaultVersion == <<1, 1, 1>>

\* What GenBank holds for accession a in revision k, as parse_gb_handle
\* returns it, restricted to the fields the controller compares.
\*   1: the base record          2: lat_lon edited
\*   3: a new version tag        4: sequence edited, same version tag
\*   5: definition edited        6: new version tag and country edited
\*   7: no taxonomic lineage (the eight taxon_* fields are None)
GenbankRecord(a, k) ==
    [accession_number |-> a,
     version          |-> <<a, IF k \in {3, 6} THEN 2 ELSE 1>>,
     dna_sequence     |-> IF k = 4 THEN <<"A", "C", "n", "N">> ELSE <<"A", "C", "G", "T", "N">>,
     definition       |-> IF k = 5 THEN "d1" ELSE "d0",
     organism         |-> "o0",
     organelle        |-> "g0",
     isolate          |-> "i0",
     country          |-> IF k = 6 THEN "c1" ELSE "c0",
     specimen_voucher |-> "s0",
     type_material    |-> "t0",
     lat_lon          |-> IF k = 2 THEN "l1" ELSE "l0",
     taxonomy         |-> IF k = 7 THEN "missing" ELSE "full"]

VARIABLES
    locked,      \* BlastDb.locked, per snapshot
    version,     \* <<genbank_version, major_version, minor_version>>, per snapshot
    sequences,   \* the NuccoreSequence rows whose owner_database is the snapshot
    summary,     \* the five lists of class SequenceUpdateSummary
    result,      \* the call that ran last and how it ended
    seal_order,  \* the locked snapshots, in the order save_blastdb locked them
    in_flight,   \* the calls that have not ended yet, each with what it has read
    fetch,       \* the retrieve_gb call under way, batch by batch
    limiter,     \* the clock, the rate limiters and the calls sent to the registry
    nodes        \* the TaxonomyNode rows

vars == <<locked, version, sequences, summary, result, seal_order, in_flight, fetch,
         limiter, nodes>>

\* The five class attributes of SequenceUpdateSummary.
SequenceUpdateSummary ==
    [no_change |-> <<>>, accession_version_changed |-> <<>>,
     metadata_changed |-> <<>>, deleted |-> <<>>, added |-> <<>>]

Buckets == {"no_change", "accession_version_changed", "metadata_changed", "deleted", "added"}

NoLast == 0

\* result of a call: op, the snapshot it ran on, the error it raised
\* ("none" when it returned), whether a request to GenBank was issued, the
\* change reasons its saves of the BlastDb appended to the change log (one
\* entry per save; the log is written and never read by the program), and
\* how the makeblastdb run of the call ended ("not run", "built", "failed").
\* Further: the accession numbers the exception carries (payload), the rows
\* the saved change-log entry names in its fields `added` and `deleted`,
\* the accession numbers of the rows returned, and the count returned.
Outcome(op, d, err, fetched, logged, build) ==
    [op |-> op, db |-> d, error |-> err, fetched |-> fetched,
     logged |-> logged, build |-> build,
     payload |-> {}, added |-> {}, deleted |-> {}, returned |-> {}, count |-> 0]

\* A call that saved nothing and built nothing.
Plain(op, d, err, fetched) == Outcome(op, d, err, fetched, <<>>, "not run")

\* No retrieve_gb call is under way. A call is followed through pc: "idle",
\* "esearch" (about to run the count query), "batches" (between two
\* requests), "awaiting" (a request is out), "returned", "raised".
\* accession_numbers, term and raise_if_missing are the arguments,
\* desired_numbers the identifiers not yet requested, found the count the
\* search reported (NotSearched before), count the hits of the term not yet
\* requested, awaiting the identifiers of the request that is out, wire the
\* requests sent and responses received in order, all_data the list built
\* so far.
NotSearched == -1
NoFetch ==
    [pc |-> "idle", accession_numbers |-> <<>>, term |-> FALSE,
     raise_if_missing |-> FALSE, desired_numbers |-> <<>>,
     found |-> NotSearched, count |-> 0, awaiting |-> <<>>, wire |-> <<>>,
     all_data |-> <<>>, error |-> "none"]

\* PERIOD of parse_gb.py, in seconds; the clock of the model counts seconds.
PERIOD == 1

\* The functions of parse_gb.py decorated with
\* @sleep_and_retry @limits(calls=1, period=PERIOD). Each decoration
\* evaluates limits(...) anew, so each function has a limiter of its own.
Limited == {"retrieve_gb", "send_gb_request", "save_taxonomy"}

\* The process has just imported parse_gb: every limiter starts its first
\* period with no call counted, nothing was sent, no caller is running.
\* pc is where each caller stands and wake the time its sleep ends.
NoLimiter ==
    [clock |-> 0,
     last_reset |-> [fn \in Limited |-> 0],
     num_calls |-> [fn \in Limited |-> 0],
     outbound |-> <<>>,
     pc |-> [w \in Workers |-> "idle"],
     wake |-> [w \in Workers |-> 0]]

Init ==
    /\ locked = [d \in Dbs |-> FALSE]
    /\ version = [d \in Dbs |-> DefaultVersion]
    /\ sequences = [d \in Dbs |-> {}]
    /\ summary = SequenceUpdateSummary
    /\ result = Plain("init", 1, "none", FALSE)
    /\ seal_order = <<>>
    /\ in_flight = {}
    /\ fetch = NoFetch
    /\ limiter = NoLimiter
    /\ nodes = {}

\* A worker process starts: the class body of SequenceUpdateSummary runs and
\* binds five new empty lists; the tables of the database are as they were.
Restart ==
    /\ summary # SequenceUpdateSummary
    /\ summary' = SequenceUpdateSummary
    /\ result' = Plain("restart", 1, "none", FALSE)
    /\ UNCHANGED <<locked, version, sequences, seal_order, in_flight, fetch, limiter, nodes>>

\* ------------------------------------------------------- record store
AccessionsOf(rows) == {r.accession_number : r \in rows}

\* NuccoreSequence.Meta.ordering = ['accession_number']: a queryset is
\* iterated in ascending accession number.
RECURSIVE Ordered(_)
Ordered(rows) ==
    IF rows = {} THEN <<>>
    ELSE LET first == CHOOSE r \in rows :
                        \A q \in rows : r.accession_number <= q.accession_number
         IN <<first>> \o Ordered(rows \ {first})

\* A NuccoreSequence row is stored for an unlocked snapshot that does not
\* hold the accession yet (the row creation the callers of save_sequence
\* perform once its checks passed).
NuccoreSequence_save(d, a, k) ==
    /\ ~locked[d]
    /\ a \notin AccessionsOf(sequences[d])
    /\ sequences' = [sequences EXCEPT ![d] = @ \cup {GenbankRecord(a, k)}]
    /\ result' = Plain("NuccoreSequence.save", d, "none", FALSE)
    /\ UNCHANGED <<locked, version, summary, seal_order, in_flight, fetch, limiter, nodes>>

\* ------------------------------------------------------------ diff engine
\* calculate_update_summary: fields_to_check.
fields_to_check ==
    <<"definition", "dna_sequence", "organism", "organelle", "isolate",
      "country", "specimen_voucher", "type_material", "lat_lon">>

has_any_field_changed(current_seq, instance) ==
    \E i \in 1..Len(fields_to_check) :
        current_seq[fields_to_check[i]] # instance[fields_to_check[i]]

\* an_to_last[accession_number] / an_to_current[accession_number]
RowOf(rows, a) == CHOOSE r \in rows : r.accession_number = a

\* The first loop over last_sequences: an accession of last that current
\* does not hold is appended to summary.deleted.
RECURSIVE DeletedPass(_, _, _)
DeletedPass(last_seq, current_rows, s) ==
    IF last_seq = <<>> THEN s
    ELSE LET seq == Head(last_seq)
             s1 == IF seq.accession_number \notin AccessionsOf(current_rows)
                   THEN [s EXCEPT !.deleted = Append(@, seq.accession_number)]
                   ELSE s
         IN DeletedPass(Tail(last_seq), current_rows, s1)

\* The bucket the second loop appends current_seq to.
BucketOf(current_seq, last_rows) ==
    IF current_seq.accession_number \notin AccessionsOf(last_rows) THEN "added"
    ELSE LET instance == RowOf(last_rows, current_seq.accession_number)
         IN IF \/ current_seq.version # instance.version
               \/ current_seq.dna_sequence # instance.dna_sequence
            THEN "accession_version_changed"
            ELSE IF has_any_field_changed(current_seq, instance)
                 THEN "metadata_changed"
                 ELSE "no_change"

RECURSIVE CurrentPass(_, _, _)
CurrentPass(current_seq, last_rows, s) ==
    IF current_seq = <<>> THEN s
    ELSE LET c == Head(current_seq)
             b == BucketOf(c, last_rows)
         IN CurrentPass(Tail(current_seq), last_rows,
                        [s EXCEPT ![b] = Append(@, c.accession_number)])

\* calculate_update_summary(last, current). `summary = SequenceUpdateSummary()`
\* creates an instance without attributes of its own, so every append
\* extends the list held by the class: s is the content of the class lists
\* when the call starts, the value is their content when it returns.
calculate_update_summary(last_rows, current_rows, s) ==
    CurrentPass(Ordered(current_rows), last_rows,
                DeletedPass(Ordered(last_rows), current_rows, s))

SummaryLen(s) ==
    Len(s.no_change) + Len(s.accession_version_changed) + Len(s.metadata_changed)
        + Len(s.deleted) + Len(s.added)

\* --------------------------------------------------------- version policy
\* BlastDb.Meta.ordering = ['genbank_version', 'major_version', 'minor_version']
VersionLess(v, w) ==
    \/ v[1] < w[1]
    \/ v[1] = w[1] /\ v[2] < w[2]
    \/ v[1] = w[1] /\ v[2] = w[2] /\ v[3] < w[3]

VersionLeq(v, w) == v = w \/ VersionLess(v, w)

\* latest with .first() in the place of .last(): the lowest published
\* version of the library.
latest_first(lk, ver, library) ==
    LET published == {d \in Dbs : LibraryOf(d) = library /\ lk[d]}
    IN {d \in published : \A e \in published : VersionLeq(ver[d], ver[e])}

\* BlastDbManager.latest(library): the last row, in Meta.ordering, of the
\* locked snapshots of the library, given the locked flags lk and the
\* versions ver of the BlastDb table. The value is the set of rows .last()
\* may return (rows of equal version are in no particular order); it is
\* empty when the library has no locked snapshot (.last() is None).
latest(lk, ver, library) ==
    LET published == {d \in Dbs : LibraryOf(d) = library /\ lk[d]}
    IN {d \in published : \A e \in published : VersionLeq(ver[e], ver[d])}

\* version_nums with the metadata test ahead of the test of added, deleted
\* and accession_version_changed.
version_nums_metadata_first(prev, s) ==
    IF Len(s.metadata_changed) > 0
    THEN <<prev[1], prev[2] + 1, 0>>
    ELSE IF Len(s.deleted) > 0 \/ Len(s.added) > 0 \/ Len(s.accession_version_changed) > 0
         THEN <<prev[1] + 1, 0, 0>>
         ELSE <<prev[1], prev[2], prev[3] + 1>>

\* version_nums that raises a component and keeps the ones after it.
version_nums_no_reset(prev, s) ==
    IF Len(s.deleted) > 0 \/ Len(s.added) > 0 \/ Len(s.accession_version_changed) > 0
    THEN <<prev[1] + 1, prev[2], prev[3]>>
    ELSE IF Len(s.metadata_changed) > 0
         THEN <<prev[1], prev[2] + 1, prev[3]>>
         ELSE <<prev[1], prev[2], prev[3] + 1>>

\* save_blastdb lines 92-97: version_nums from the previous version and the
\* summary.
version_nums(prev, s) ==
    IF Len(s.deleted) > 0 \/ Len(s.added) > 0 \/ Len(s.accession_version_changed) > 0
    THEN <<prev[1] + 1, 0, 0>>
    ELSE IF Len(s.metadata_changed) > 0
         THEN <<prev[1], prev[2] + 1, 0>>
         ELSE <<prev[1], prev[2], prev[3] + 1>>

\* save_blastdb line 86: the first published version of a library.
FirstVersion == <<1, 0, 0>>

\* ------------------------------------------------------------ change log
\* append_change_reason: the reasons of a save, in the order appended.
append_change_reason(change_reason, reason) == Append(change_reason, reason)

\* ---------------------------------------------------------- save_blastdb
\* seal_order without snapshot d.
Without(order, d) == SelectSeq(order, LAMBDA e : e # d)

\* save_blastdb(obj, perform_lock=True) on snapshot d, called as part of
\* operation op when the BlastDb table holds lk and ver and the operation
\* has already logged the entries `logged` and has or has not called
\* retrieve_gb (fetched). The caller has set
\* obj._change_reason to change_reason (the docstring's precondition; line
\* 141 reads it). build_ok tells whether makeblastdb succeeds: os.system's
\* return value is dropped, so the call goes on either way.
\* There is no test of obj.locked: a locked snapshot is processed like an
\* unlocked one.
Seal(op, d, lk, ver, logged, change_reason, build_ok, fetched) ==
    \E last \in (IF latest(lk, ver, LibraryOf(d)) = {} THEN {NoLast}
                 ELSE latest(lk, ver, LibraryOf(d))) :
        LET s1 == IF last = NoLast THEN summary
                  ELSE calculate_update_summary(sequences[last], sequences[d], summary)
            nums == IF last = NoLast THEN FirstVersion
                    ELSE version_nums(ver[last], s1)
        IN /\ summary' = s1
           /\ locked' = [lk EXCEPT ![d] = TRUE]
           /\ version' = [ver EXCEPT ![d] = nums]
           /\ result' = Outcome(op, d, "none", fetched,
                                Append(logged, <<"Locked database">> \o change_reason),
                                IF build_ok THEN "built" ELSE "failed")
           /\ seal_order' = Append(Without(seal_order, d), d)
           /\ UNCHANGED <<sequences, in_flight, fetch, limiter, nodes>>

save_blastdb(d) ==
    \E build_ok \in BOOLEAN :
        Seal("save_blastdb", d, locked, version, <<>>, <<>>, build_ok, FALSE)

\* ------------------------------------------------------- external fetch
\* What one retrieve_gb call can meet: the registry answers ("ok"), the
\* connection fails, or the registry rejects the request with HTTP 400.
FetchOutcomes == {"ok", "GenBankConnectionError", "InsufficientAccessionData"}
FetchErrors == FetchOutcomes \ {"ok"}

\* An answer of the registry to a request for the accessions `asked`:
\* each accession is either left out (Missing) or answered in one revision.
Missing == 0
Answers(asked) == [asked -> {Missing} \cup Revisions]

\* ------------------------------------------------- delete_sequences_in_database
\* delete_sequences_in_database(database, desired_nums). log_deleted_sequences
\* is handed `[s for s in to_delete]` after to_delete.delete(): the queryset
\* is evaluated again and is empty by then, so the entry saved names no row.
\* Line 365 reads result[1]['barcode_blastn.NuccoreSequence']: QuerySet.delete
\* of Django 4.1 (settings.py) leaves models of which it deleted no row out of
\* that dictionary, so the read raises KeyError when nothing matched, after
\* the save.
delete_sequences_in_database(d, desired_nums) ==
    LET op == "delete_sequences_in_database"
        to_delete == {r \in sequences[d] : r.accession_number \in desired_nums}
    IN
    IF locked[d]
    THEN /\ result' = Plain(op, d, "DatabaseLocked", FALSE)
         /\ UNCHANGED <<locked, version, sequences, summary, seal_order, in_flight, fetch, limiter, nodes>>
    ELSE /\ sequences' = [sequences EXCEPT ![d] =
                             {r \in @ : r.accession_number \notin desired_nums}]
         /\ result' = [Outcome(op, d, IF to_delete = {} THEN "KeyError" ELSE "none",
                                FALSE,
                                <<append_change_reason(<<>>, "Deleted sequences")>>,
                                "not run")
                          EXCEPT !.deleted = {}, !.count = Cardinality(to_delete)]
         /\ UNCHANGED <<locked, version, summary, seal_order, in_flight, fetch, limiter, nodes>>

\* ------------------------------------------------- filter_sequences_in_database
\* Upper('dna_sequence'), then Length(uppercase) - Length(Replace(uppercase, 'N')).
RECURSIVE AmbiguousUpper(_)
AmbiguousUpper(dna) ==
    IF dna = <<>> THEN 0
    ELSE (IF Head(dna) \in {"N", "n"} THEN 1 ELSE 0) + AmbiguousUpper(Tail(dna))

\* An identifier a caller names is an accession number ("A1", written
\* <<1, 0>>) or a version tag ("A1.2", written <<1, 2>>).
AccessionId(a) == <<a, 0>>

\* The rows the queryset `violations` selects. require_taxonomy is a
\* parameter of the function that its body never reads.
Violations(rows, min_length, max_length, max_ambiguous_bases, blacklist) ==
    {r \in rows :
        \/ AccessionId(r.accession_number) \in blacklist
        \/ r.version \in blacklist
        \/ min_length > -1 /\ Len(r.dna_sequence) < min_length
        \/ max_length > -1 /\ Len(r.dna_sequence) > max_length
        \/ max_ambiguous_bases > -1 /\ AmbiguousUpper(r.dna_sequence) > max_ambiguous_bases}

\* The lines of change_reason, in the order they are appended.
FilterReason(min_length, max_length, max_ambiguous_bases, blacklist) ==
    (IF blacklist # {} THEN <<"Remove using blacklist">> ELSE <<>>)
    \o (IF min_length > -1 THEN <<"Delete length <">> ELSE <<>>)
    \o (IF max_length > -1 THEN <<"Delete length >">> ELSE <<>>)
    \o (IF max_ambiguous_bases > -1 THEN <<"Delete if Ns >">> ELSE <<>>)

\* filter_sequences_in_database(database, ...): the function has no test of
\* database.locked, and no statement of its body reads require_taxonomy.
filter_sequences_in_database(d, min_length, max_length, max_ambiguous_bases, blacklist, require_taxonomy) ==
    /\ sequences' = [sequences EXCEPT ![d] =
          @ \ Violations(@, min_length, max_length, max_ambiguous_bases, blacklist)]
    /\ result' = Outcome("filter_sequences_in_database", d, "none", FALSE,
          <<FilterReason(min_length, max_length, max_ambiguous_bases, blacklist)>>,
          "not run")
    /\ UNCHANGED <<locked, version, summary, seal_order, in_flight, fetch, limiter, nodes>>

\* The filter settings the model calls the function with.
FilterSettings ==
    {[min_length |-> -1, max_length |-> -1, max_ambiguous_bases |-> -1, blacklist |-> {},
      require_taxonomy |-> FALSE],
     [min_length |-> -1, max_length |-> -1, max_ambiguous_bases |-> -1,
      blacklist |-> {AccessionId(1)}, require_taxonomy |-> FALSE],
     [min_length |-> 6,  max_length |-> 4,  max_ambiguous_bases |-> 0,  blacklist |-> {},
      require_taxonomy |-> TRUE]}

\* ------------------------------------------------- update_sequences_in_database
\* update_sequences_in_database(database, desired_numbers).
\*  - an empty desired_numbers selects every row, and retrieve_gb is then
\*    called with an empty list and no term: it raises ValueError;
\*  - a row whose accession the registry left out makes
\*    acc_to_data[record.accession_number] raise KeyError before bulk_update.
update_sequences_in_database(d, desired_numbers) ==
    LET op == "update_sequences_in_database"
        existing == {r \in sequences[d] : r.accession_number \in desired_numbers}
        stay == <<locked, version, sequences, summary, seal_order, in_flight, fetch, limiter, nodes>>
    IN IF locked[d]
       THEN result' = Plain(op, d, "DatabaseLocked", FALSE) /\ UNCHANGED stay
       ELSE IF desired_numbers # {} /\ Cardinality(existing) < Cardinality(desired_numbers)
       THEN /\ result' = [Plain(op, d, "AccessionsNotFound", FALSE) EXCEPT
                             !.payload = desired_numbers \ AccessionsOf(existing)]
            /\ UNCHANGED stay
       ELSE IF desired_numbers = {}
       THEN result' = Plain(op, d, "ValueError", FALSE) /\ UNCHANGED stay
       ELSE \/ \E gb \in FetchErrors :
                 result' = Plain(op, d, gb, TRUE) /\ UNCHANGED stay
            \/ \E answer \in Answers(desired_numbers) :
                 IF \E a \in desired_numbers : answer[a] = Missing
                 THEN result' = Plain(op, d, "KeyError", TRUE) /\ UNCHANGED stay
                 ELSE /\ sequences' = [sequences EXCEPT ![d] =
                            (@ \ existing)
                            \cup {GenbankRecord(a, answer[a]) : a \in desired_numbers}]
                      /\ result' = [Plain(op, d, "none", TRUE) EXCEPT
                                       !.returned = desired_numbers]
                      /\ UNCHANGED <<locked, version, summary, seal_order, in_flight, fetch, limiter, nodes>>

\* --------------------------------------------------------- update_from_genbank
\* The instances the loop of update_from_genbank passes before it reaches
\* the first one the registry answered: each is appended to
\* update_summary.deleted.
RECURSIVE MissingPrefix(_, _)
MissingPrefix(instances, answer) ==
    IF instances = <<>> \/ answer[Head(instances).accession_number] # Missing
    THEN <<>>
    ELSE <<Head(instances).accession_number>> \o MissingPrefix(Tail(instances), answer)

\* update_from_genbank(sequence_instances) on the rows of snapshot d; there
\* is no test of the owner's locked flag.
\*  - no rows: retrieve_gb raises ValueError;
\*  - nothing answered: new_data[0] raises IndexError;
\*  - otherwise the loop reaches an answered instance and
\*    genbank_dict['created'] raises KeyError (fields_to_update ends with
\*    'created', which no fetched dictionary holds), so bulk_update and the
\*    deletions are never reached; the appends to the class lists stay.
update_from_genbank(d) ==
    LET op == "update_from_genbank"
        instances == Ordered(sequences[d])
    IN /\ UNCHANGED <<locked, version, sequences, seal_order, in_flight, fetch, limiter, nodes>>
       /\ IF sequences[d] = {}
          THEN result' = Plain(op, d, "ValueError", FALSE) /\ UNCHANGED summary
          ELSE \/ \E gb \in FetchErrors :
                    result' = Plain(op, d, gb, TRUE) /\ UNCHANGED summary
               \/ \E answered \in SUBSET AccessionsOf(sequences[d]) :
                    LET answer == [a \in AccessionsOf(sequences[d]) |->
                                     IF a \in answered THEN 1 ELSE Missing]
                    IN IF answered = {}
                       THEN result' = Plain(op, d, "IndexError", TRUE) /\ UNCHANGED summary
                       ELSE /\ summary' = [summary EXCEPT !.deleted =
                                              @ \o MissingPrefix(instances, answer)]
                            /\ result' = Plain(op, d, "KeyError", TRUE)

\* --------------------------------------------------- add_sequences_to_database
\* How the call save_taxonomy(genbank_data) of lines 477 and 591 can end.
\* parse_gb.save_taxonomy is declared with two positional parameters
\* (taxonomy_info, user), so with that definition the one-argument call
\* raises TypeError; the controller is written for a save_taxonomy that takes
\* the fetched data alone, which either raises TaxonomyConnectionError or
\* returns the data with its lineage ("ok").
TaxonomyOutcomes == {"TypeError", "TaxonomyConnectionError", "ok"}

\* log_added_sequences(instances, ...): str(i) of a NuccoreSequence is
\* '<accession>, <organism> (<id>)' and never equals str(database.id), so
\* the function raises ValueError as soon as instances is not empty.
log_added_sequences(instances) ==
    IF instances # {} THEN "ValueError" ELSE "none"

\* The loop of lines 482-521 with the default filter arguments: a fetched
\* record becomes a row unless its accession is in `existing`.
to_create(data, existing) ==
    {r \in data : r.accession_number \notin existing}

\* The second half of add_sequences_to_database (lines 477-530), given the
\* records retrieve_gb returned, the accession numbers read on line 469 and
\* how save_taxonomy ends: the rows bulk_create stores, the change-log
\* entry saved and the error raised. bulk_create runs before
\* log_added_sequences, and nothing undoes it when that call raises.
AddTail(data, existing, taxonomy) ==
    IF taxonomy # "ok"
    THEN [error |-> taxonomy, fetched |-> TRUE, payload |-> {}, rows |-> {},
          logged |-> <<>>]
    ELSE LET created_sequences == to_create(data, existing)
             err == log_added_sequences(created_sequences)
         IN [error |-> err, fetched |-> TRUE, payload |-> {},
             rows |-> created_sequences,
             logged |-> IF err = "none"
                        THEN <<append_change_reason(<<>>, "Added sequences")>>
                        ELSE <<>>]

\* The records retrieve_gb can return for the accession numbers `asked` of
\* the request and, with a search term, for the accessions the term matches.
FetchedData(asked, has_term) ==
    {{GenbankRecord(a, answer[a]) : a \in {x \in DOMAIN answer : answer[x] # Missing}} :
        answer \in UNION {Answers(asked \cup hits) :
                            hits \in (IF has_term THEN SUBSET Acc ELSE {{}})}}

\* A call that ended before retrieve_gb with error err and no row stored.
EarlyExit(err, payload) ==
    [error |-> err, fetched |-> FALSE, payload |-> payload, rows |-> {},
     logged |-> <<>>]

\* Lines 471-473 with the conflicts reported as the whole request.
AddEarly_all_requested(d, lk, desired_numbers, by_version, has_term) ==
    IF lk[d] THEN {EarlyExit("DatabaseLocked", {})}
    ELSE IF desired_numbers = {} /\ by_version = {} /\ ~has_term
    THEN {EarlyExit("none", {})}
    ELSE IF desired_numbers \cap AccessionsOf(sequences[d]) # {}
    THEN {EarlyExit("AccessionsAlreadyExist", desired_numbers)}
    ELSE {}

\* Lines 463-473 of add_sequences_to_database(database, desired_numbers,
\* search_term) on snapshot d when the BlastDb table holds lk: how the call
\* ends before the request to the registry, or {} when it goes on to it.
\* desired_numbers are the accession numbers asked for and by_version the
\* version tags asked for (create_blastdb passes the version tags of the
\* base): the test of line 471 compares each identifier with the accession
\* numbers stored, and a version tag never equals one.
AddEarly(d, lk, desired_numbers, by_version, has_term) ==
    LET existing == AccessionsOf(sequences[d])
        conflicts == {e \in desired_numbers : e \in existing}
    IN IF lk[d] THEN {EarlyExit("DatabaseLocked", {})}
       ELSE IF desired_numbers = {} /\ by_version = {} /\ ~has_term
       THEN {EarlyExit("none", {})}
       ELSE IF conflicts # {} THEN {EarlyExit("AccessionsAlreadyExist", conflicts)}
       ELSE {}

\* Lines 476-530: the request to the registry fails, or it returns and the
\* second half of the function runs with `existing`.
AddLate(asked, has_term, existing) ==
    {[EarlyExit(gb, {}) EXCEPT !.fetched = TRUE] : gb \in FetchErrors}
    \cup {AddTail(data, existing, taxonomy) :
             data \in FetchedData(asked, has_term),
             taxonomy \in TaxonomyOutcomes}

\* How the whole call can end.
AddOutcomes(d, lk, desired_numbers, by_version, has_term) ==
    LET early == AddEarly(d, lk, desired_numbers, by_version, has_term)
    IN IF early # {} THEN early
       ELSE AddLate(desired_numbers \cup {v[1] : v \in by_version}, has_term,
                    AccessionsOf(sequences[d]))

\* The outcome of the call as `result` records it.
AddResult(op, d, out, logged) ==
    [Outcome(op, d, out.error, out.fetched, logged \o out.logged, "not run")
        EXCEPT !.payload = out.payload,
               !.added = {r.version : r \in (IF out.logged = <<>> THEN {} ELSE out.rows)},
               !.returned = IF out.error = "none" THEN AccessionsOf(out.rows) ELSE {}]

add_sequences_to_database(d, desired_numbers, has_term) ==
    \E out \in AddOutcomes(d, locked, desired_numbers, {}, has_term) :
        /\ sequences' = [sequences EXCEPT ![d] = @ \cup out.rows]
        /\ result' = AddResult("add_sequences_to_database", d, out, <<>>)
        /\ UNCHANGED <<locked, version, summary, seal_order, in_flight, fetch, limiter, nodes>>

\* ---------------------------------------------------------------- save_sequence
\* save_sequence(obj, commit=..., raise_errors=...) for an instance with
\* accession a owned by snapshot d; is_new tells whether obj is not yet a
\* row of d.
\*  - with raise_errors the first error is raised: the locked owner, the
\*    duplicate accession, the failed fetch, the failed save_taxonomy, the
\*    record the registry left out (IndexError on `[0]`);
\*  - without raise_errors every error is printed and the function goes on:
\*    when the fetch and save_taxonomy succeed and commit is set,
\*    serializer.save() stores obj, whatever the earlier tests printed.
save_sequence(d, a, is_new, commit, raise_errors) ==
    LET op == "save_sequence"
        others == IF is_new THEN sequences[d]
                  ELSE {r \in sequences[d] : r.accession_number # a}
        duplicate == a \in AccessionsOf(others)
        stay == <<locked, version, sequences, summary, seal_order, in_flight, fetch, limiter, nodes>>
    IN /\ ~is_new => a \in AccessionsOf(sequences[d])
       /\ IF raise_errors /\ locked[d]
          THEN result' = Plain(op, d, "ValueError", FALSE) /\ UNCHANGED stay
          ELSE IF raise_errors /\ duplicate
          THEN /\ result' = [Plain(op, d, "AccessionsAlreadyExist", FALSE)
                                EXCEPT !.payload = {a}]
               /\ UNCHANGED stay
          ELSE \/ \E err \in FetchErrors \cup {"IndexError"}
                            \cup (TaxonomyOutcomes \ {"ok"}) :
                    /\ result' = Plain(op, d, IF raise_errors THEN err ELSE "none", TRUE)
                    /\ UNCHANGED stay
               \/ \E k \in Revisions :
                    /\ result' = [Plain(op, d, "none", TRUE) EXCEPT !.returned = {a}]
                    /\ sequences' = [sequences EXCEPT ![d] =
                          IF commit THEN others \cup {GenbankRecord(a, k)} ELSE @]
                    /\ UNCHANGED <<locked, version, summary, seal_order,
                                   in_flight, fetch, limiter, nodes>>

\* --------------------------------------------------------------- create_blastdb
NoDb == 0

\* create_blastdb(additional_accessions, base, database, locked=lock_kw).
\*  - database=None: line 183 reads database._change_reason of None and
\*    raises AttributeError before anything is saved;
\*  - otherwise the instance given is reset (version 0.0.0 from the kwargs
\*    defaults, locked False) and saved with 'Initial save';
\*  - the accessions to add are additional_accessions and the version tags
\*    of the rows of base; when there are any, add_sequences_to_database is
\*    called and its error ends the call;
\*  - otherwise, with locked=True, save_blastdb locks the instance.
create_blastdb(d, base, additional_accessions, lock_kw) ==
    LET op == "create_blastdb" IN
    IF d = NoDb
    THEN /\ result' = Plain(op, 1, "AttributeError", FALSE)
         /\ UNCHANGED <<locked, version, sequences, summary, seal_order, in_flight, fetch, limiter, nodes>>
    ELSE LET lk == [locked EXCEPT ![d] = FALSE]
             ver == [version EXCEPT ![d] = <<0, 0, 0>>]
             logged == <<append_change_reason(<<>>, "Initial save")>>
             from_base == IF base = NoDb THEN {} ELSE {r.version : r \in sequences[base]}
         IN IF additional_accessions # {} \/ from_base # {}
            THEN \E out \in AddOutcomes(d, lk, additional_accessions, from_base, FALSE) :
                   IF out.error = "none" /\ lock_kw
                   THEN \E build_ok \in BOOLEAN :
                          Seal(op, d, lk, ver, logged \o out.logged,
                               <<"Initial save", "Added sequences">>, build_ok, TRUE)
                   ELSE /\ locked' = lk
                        /\ version' = ver
                        /\ sequences' = [sequences EXCEPT ![d] = @ \cup out.rows]
                        /\ result' = AddResult(op, d, out, logged)
                        /\ seal_order' = Without(seal_order, d)
                        /\ UNCHANGED <<summary, in_flight, fetch, limiter, nodes>>
            ELSE IF lock_kw
            THEN \E build_ok \in BOOLEAN :
                   Seal(op, d, lk, ver, logged, <<"Initial save">>, build_ok, FALSE)
            ELSE /\ locked' = lk
                 /\ version' = ver
                 /\ result' = Outcome(op, d, "none", FALSE, logged, "not run")
                 /\ seal_order' = Without(seal_order, d)
                 /\ UNCHANGED <<sequences, summary, in_flight, fetch, limiter, nodes>>

\* ------------------------------------------------------------ specification
\* The part of the state space the model follows: published versions whose
\* components sum to at most MaxVersion, class lists of at most MaxSummary
\* entries.
Bounded ==
    /\ \A d \in Dbs :
          locked[d] => version[d][1] + version[d][2] + version[d][3] <= MaxVersion
    /\ SummaryLen(summary) <= MaxSummary

Next ==
    \/ Restart
    \/ \E d \in Dbs, a \in Acc, k \in Revisions : NuccoreSequence_save(d, a, k)
    \/ \E d \in Dbs : save_blastdb(d) /\ Bounded'
    \/ \E d \in Dbs, desired_nums \in SUBSET Acc :
          delete_sequences_in_database(d, desired_nums)
    \/ \E d \in Dbs, f \in FilterSettings :
          filter_sequences_in_database(d, f.min_length, f.max_length,
                                       f.max_ambiguous_bases, f.blacklist,
                                       f.require_taxonomy)
    \/ \E d \in Dbs, desired_numbers \in SUBSET Acc :
          update_sequences_in_database(d, desired_numbers)
    \/ \E d \in Dbs : update_from_genbank(d) /\ Bounded'
    \/ \E d \in Dbs, desired_numbers \in SUBSET Acc, has_term \in BOOLEAN :
          add_sequences_to_database(d, desired_numbers, has_term)
    \/ \E d \in Dbs, a \in Acc, is_new, commit, raise_errors \in BOOLEAN :
          save_sequence(d, a, is_new, commit, raise_errors)
    \/ create_blastdb(NoDb, NoDb, {}, TRUE)
    \/ \E d \in Dbs, base \in Dbs \cup {NoDb},
          additional_accessions \in SUBSET Acc, lock_kw \in BOOLEAN :
              create_blastdb(d, base, additional_accessions, lock_kw) /\ Bounded'

Spec == Init /\ [][Next]_vars

\* ------------------------------------------------- the policy on its own
\* save_blastdb applied once, in a process that has just started, to every
\* input of a bounded set: snapshot 1 is published with a version of
\* PolicyVersions and holds base records, snapshot 2 is unlocked and holds
\* any revision of any of the PolicyAcc accessions.
NumPolicyAcc == 2
NumPolicyRevisions == 4
MaxMajor == 2
MaxMinor == 1

PolicyAcc == 1..NumPolicyAcc
PolicyVersions == (1..MaxMajor) \X (0..MaxMinor) \X (0..MaxMinor)

PolicyInit ==
    \E v \in PolicyVersions, previous \in SUBSET PolicyAcc,
       current \in [PolicyAcc -> {Missing} \cup (1..NumPolicyRevisions)] :
        /\ locked = [d \in Dbs |-> d = 1]
        /\ version = [d \in Dbs |-> IF d = 1 THEN v ELSE DefaultVersion]
        /\ sequences = [d \in Dbs |->
              IF d = 1 THEN {GenbankRecord(a, 1) : a \in previous}
              ELSE IF d = 2
              THEN {GenbankRecord(a, current[a]) :
                       a \in {b \in PolicyAcc : current[b] # Missing}}
              ELSE {}]
        /\ summary = SequenceUpdateSummary
        /\ result = Plain("init", 1, "none", FALSE)
        /\ seal_order = <<1>>
        /\ in_flight = {}
        /\ fetch = NoFetch
    /\ limiter = NoLimiter
    /\ nodes = {}

PolicyNext == result.op = "init" /\ save_blastdb(2)

PolicySpec == PolicyInit /\ [][PolicyNext]_vars

\* ------------------------------------------------- concurrent adds
\* Snapshot 1 with NumConcAcc accession numbers, and several workers that
\* run add_sequences_to_database on it at the same time. A call reads the stored accession numbers (line 469), then waits on
\* the registry (line 476), then creates rows (line 526): the model splits it
\* at the wait. Neither the model class nor a migration declares a
\* uniqueness constraint on (owner_database, accession_number).
NumConcAcc == 2
ConcAcc == 1..NumConcAcc

\* Lines 463-476 of the call of worker w: the tests, then the request.
add_begin(w, d, desired_numbers) ==
    LET early == AddEarly(d, locked, desired_numbers, {}, FALSE)
    IN /\ \A c \in in_flight : c.worker # w
       /\ UNCHANGED <<locked, version, sequences, summary, seal_order, fetch, limiter, nodes>>
       /\ IF early # {}
          THEN /\ \E out \in early :
                     result' = AddResult("add_sequences_to_database", d, out, <<>>)
               /\ UNCHANGED in_flight
          ELSE /\ in_flight' = in_flight \cup
                      {[worker |-> w, db |-> d, desired_numbers |-> desired_numbers,
                        existing |-> AccessionsOf(sequences[d])]}
               /\ result' = Plain("retrieve_gb", d, "none", TRUE)

\* Lines 476-530 of a call that waits: the registry answers or fails, and
\* the rest of the function runs with the `existing` read before the wait.
\* (Rows are a set: two rows of one accession are told apart only when
\* their fields differ.)
add_end(call) ==
    /\ call \in in_flight
    /\ in_flight' = in_flight \ {call}
    /\ \E out \in AddLate(call.desired_numbers, FALSE, call.existing) :
          /\ sequences' = [sequences EXCEPT ![call.db] = @ \cup out.rows]
          /\ result' = AddResult("add_sequences_to_database", call.db, out, <<>>)
    /\ UNCHANGED <<locked, version, summary, seal_order, fetch, limiter, nodes>>

ConcNext ==
    \/ \E w \in Workers, desired_numbers \in SUBSET ConcAcc :
          add_begin(w, 1, desired_numbers)
    \/ \E call \in in_flight : add_end(call)
    \/ \E desired_numbers \in SUBSET ConcAcc, has_term \in BOOLEAN :
          add_sequences_to_database(1, desired_numbers, has_term)
    \/ \E desired_numbers \in SUBSET ConcAcc :
          update_sequences_in_database(1, desired_numbers)
    \/ \E desired_nums \in SUBSET ConcAcc :
          delete_sequences_in_database(1, desired_nums)

ConcSpec == Init /\ [][ConcNext]_vars

\* ------------------------------------------------- the filter on its own
\* filter_sequences_in_database applied once to snapshot 1 holding, for each
\* accession number of ConcAcc, no row or the record of one of the
\* revisions 1..NumFilterRevisions (edited sequences, a later version tag, a
\* record without lineage), with every setting of FilterInputs.
NumFilterRevisions == 7

FilterInit ==
    /\ locked = [d \in Dbs |-> FALSE]
    /\ version = [d \in Dbs |-> DefaultVersion]
    /\ \E held \in [ConcAcc -> {Missing} \cup 1..NumFilterRevisions] :
          sequences = [d \in Dbs |->
              IF d = 1
              THEN {GenbankRecord(a, held[a]) : a \in {x \in ConcAcc : held[x] # Missing}}
              ELSE {}]
    /\ summary = SequenceUpdateSummary
    /\ result = Plain("init", 1, "none", FALSE)
    /\ seal_order = <<>>
    /\ in_flight = {}
    /\ fetch = NoFetch
    /\ limiter = NoLimiter
    /\ nodes = {}

\* The settings: each length bound unset or set, the bound on ambiguous
\* bases unset, 0 or 1, the blacklist empty, an accession number or a version
\* tag, taxonomy required or not.
FilterInputs ==
    [min_length : {-1, 5}, max_length : {-1, 4}, max_ambiguous_bases : {-1, 0, 1},
     blacklist : {{}, {AccessionId(1)}, {<<2, 2>>}}, require_taxonomy : BOOLEAN]

FilterNext ==
    /\ result.op = "init"
    /\ \E f \in FilterInputs :
          filter_sequences_in_database(1, f.min_length, f.max_length,
                                       f.max_ambiguous_bases, f.blacklist,
                                       f.require_taxonomy)

FilterSpec == FilterInit /\ [][FilterNext]_vars

\* ------------------------------------------------- retrieve_gb step by step
\* parse_gb.py sets ACCESSIONS_PER_REQUEST = 300 and MAX_ACCESSIONS = 1500;
\* the model keeps the two names and follows the same code with a batch
\* size of 2 and a ceiling of 4, so that lists of several batches, lists
\* above the ceiling and lists with repeated identifiers are all small.
ACCESSIONS_PER_REQUEST == 2
MAX_ACCESSIONS == 4
\* Identifiers a caller can put in the list.
NumFetchAcc == 5
FetchAcc == 1..NumFetchAcc

\* The lists a caller passes: up to one identifier more than the ceiling,
\* repetitions included, written in non-decreasing order.
Requests ==
    {q \in UNION {[1..n -> FetchAcc] : n \in 0..(MAX_ACCESSIONS + 1)} :
        \A i \in 1..(Len(q) - 1) : q[i] <= q[i + 1]}

Range(q) == {q[i] : i \in DOMAIN q}

\* list(set(accession_numbers)) with every identifier kept as often as given.
Dedups_keep_all(accession_numbers) == {accession_numbers}

\* list(set(accession_numbers)), line 225: the distinct identifiers, in the
\* order the set happens to iterate in, which the language leaves open.
Dedups(accession_numbers) ==
    {q \in [1..Cardinality(Range(accession_numbers)) -> Range(accession_numbers)] :
        Range(q) = Range(accession_numbers)}

\* The tests of lines 222 and 251 with the ceiling never reached.
ExceedsLimit_never(n) == FALSE

\* The tests of lines 222 and 251.
ExceedsLimit(n) == n > MAX_ACCESSIONS

Raised(f, err) == [f EXCEPT !.pc = "raised", !.error = err]

Event(kind, ids, data) == [kind |-> kind, ids |-> ids, data |-> data]

\* retrieve_gb(accession_numbers, term, raise_if_missing) up to line 232:
\* the tests on the arguments and the deduplication.
retrieve_gb(accession_numbers, term, raise_if_missing) ==
    /\ fetch.pc = "idle"
    /\ LET f == [fetch EXCEPT !.accession_numbers = accession_numbers,
                              !.term = term,
                              !.raise_if_missing = raise_if_missing]
       IN IF Len(accession_numbers) = 0 /\ ~term
          THEN fetch' = Raised(f, "ValueError")
          ELSE IF ExceedsLimit(Len(accession_numbers))
          THEN fetch' = Raised(f, "AccessionLimitExceeded")
          ELSE \E desired_numbers \in Dedups(accession_numbers) :
                  fetch' = [f EXCEPT !.desired_numbers = desired_numbers,
                                     !.pc = IF term THEN "esearch" ELSE "batches"]
    /\ UNCHANGED <<locked, version, sequences, summary, result, seal_order, in_flight, limiter, nodes>>

\* Lines 236-252: the count query and the test of its result. Any failure
\* of the query is raised as GenBankConnectionError.
esearch(count) ==
    /\ fetch.pc = "esearch"
    /\ LET f == [fetch EXCEPT !.wire = Append(@, Event("esearch", <<>>, <<>>))]
       IN \/ /\ count = 0
             /\ fetch' = Raised(f, "GenBankConnectionError")
          \/ fetch' = IF ExceedsLimit(count)
                      THEN Raised([f EXCEPT !.found = count], "AccessionLimitExceeded")
                      ELSE [f EXCEPT !.found = count, !.count = count, !.pc = "batches"]
    /\ UNCHANGED <<locked, version, sequences, summary, result, seal_order, in_flight, limiter, nodes>>

\* Lines 256-257 and 265-270: the next request goes out - a page of the
\* search while hits remain, then the first ACCESSIONS_PER_REQUEST
\* identifiers left - or, with nothing left, the list is returned (line 276).
send_gb_request ==
    /\ fetch.pc = "batches"
    /\ IF fetch.count > 0
       THEN fetch' = [fetch EXCEPT
                         !.pc = "awaiting", !.awaiting = <<>>,
                         !.wire = Append(@, Event("efetch", <<>>, <<>>))]
       ELSE IF Len(fetch.desired_numbers) > 0
       THEN LET n == IF Len(fetch.desired_numbers) < ACCESSIONS_PER_REQUEST
                     THEN Len(fetch.desired_numbers) ELSE ACCESSIONS_PER_REQUEST
                next_numbers == SubSeq(fetch.desired_numbers, 1, n)
            IN fetch' = [fetch EXCEPT
                            !.pc = "awaiting", !.awaiting = next_numbers,
                            !.desired_numbers =
                                SubSeq(@, n + 1, Len(fetch.desired_numbers)),
                            !.wire = Append(@, Event("efetch", next_numbers, <<>>))]
       ELSE fetch' = [fetch EXCEPT !.pc = "returned"]
    /\ UNCHANGED <<locked, version, sequences, summary, result, seal_order, in_flight, limiter, nodes>>

\* The records of a response: the identifiers of the request the registry
\* knows, in the order asked (a hit of the search is written as the negated
\* rank it has among the hits).
RECURSIVE Known(_, _)
Known(ids, known) ==
    IF ids = <<>> THEN <<>>
    ELSE (IF Head(ids) \in known THEN <<Head(ids)>> ELSE <<>>) \o Known(Tail(ids), known)

\* Lines 171-199 and 257-259, 271: the request that is out fails (HTTP 400
\* is InsufficientAccessionData, anything else GenBankConnectionError), or
\* its records arrive and extend all_data; with raise_if_missing an
\* identifier without a record raises InsufficientAccessionData.
receive ==
    /\ fetch.pc = "awaiting"
    /\ \/ \E err \in FetchErrors : fetch' = Raised(fetch, err)
       \/ /\ fetch.count > 0
          /\ LET n == IF fetch.count < ACCESSIONS_PER_REQUEST
                      THEN fetch.count ELSE ACCESSIONS_PER_REQUEST
                 first == fetch.found - fetch.count
                 batch_result == [i \in 1..n |-> 0 - (first + i)]
             IN fetch' = [fetch EXCEPT
                             !.pc = "batches",
                             !.count = @ - ACCESSIONS_PER_REQUEST,
                             !.wire = Append(@, Event("response", <<>>, batch_result)),
                             !.all_data = @ \o batch_result]
       \/ /\ fetch.count <= 0
          /\ \E known \in SUBSET Range(fetch.awaiting) :
                LET batch_result == Known(fetch.awaiting, known)
                    f == [fetch EXCEPT
                             !.awaiting = <<>>,
                             !.wire = Append(@, Event("response", <<>>, batch_result))]
                IN IF fetch.raise_if_missing /\ known # Range(fetch.awaiting)
                   THEN fetch' = Raised(f, "InsufficientAccessionData")
                   ELSE fetch' = [f EXCEPT !.pc = "batches",
                                           !.all_data = @ \o batch_result]
    /\ UNCHANGED <<locked, version, sequences, summary, result, seal_order, in_flight, limiter, nodes>>

FetchNext ==
    \/ \E accession_numbers \in Requests, term, raise_if_missing \in BOOLEAN :
          retrieve_gb(accession_numbers, term, raise_if_missing)
    \/ \E count \in 0..(MAX_ACCESSIONS + 1) : esearch(count)
    \/ send_gb_request
    \/ receive

FetchSpec == Init /\ [][FetchNext]_vars

\* ------------------------------------------------- the rate limiters
\* The calls one add_sequences_to_database(database, [accession], term)
\* sends to the registry, for each of the Workers, against a clock:
\* retrieve_gb runs the count query, requests the page of the search,
\* sleeps a second, requests the batch of identifiers, and save_taxonomy
\* then requests the lineages.
MaxClock == 3

\* What the wrapper of limits(calls=1, period=PERIOD) does to the limiter of
\* fn at time `now`: a period that has run out starts anew, the call is
\* counted, and it is let through unless it is the second of its period.
Counted(l, fn, now) ==
    LET expired == PERIOD - (now - l.last_reset[fn]) <= 0
    IN [l EXCEPT !.last_reset[fn] = IF expired THEN now ELSE @,
                 !.num_calls[fn] = (IF expired THEN 0 ELSE @) + 1]

Admitted(l, fn) == l.num_calls[fn] <= 1

\* Caller w calls the decorated function fn. Let through, it sends `kind`
\* to the registry at once, goes on at `to` and, where the code says
\* sleep(1) after the request, sleeps; held back (RateLimitException, caught
\* by sleep_and_retry), it sleeps for the rest of the period and calls again.
Call(w, fn, kind, to, sleeps) ==
    LET l == Counted(limiter, fn, limiter.clock)
        remaining == PERIOD - (l.clock - l.last_reset[fn])
    IN IF Admitted(l, fn)
       THEN [l EXCEPT !.outbound = Append(@, [kind |-> kind, at |-> l.clock]),
                      !.pc[w] = to,
                      !.wake[w] = IF sleeps THEN l.clock + 1 ELSE @]
       ELSE [l EXCEPT !.wake[w] = l.clock + remaining]

\* retrieve_gb is entered and runs Entrez.esearch (line 238).
call_retrieve_gb(w) ==
    /\ limiter.pc[w] = "idle"
    /\ limiter.clock >= limiter.wake[w]
    /\ limiter' = Call(w, "retrieve_gb", "esearch", "page", FALSE)
    /\ UNCHANGED <<locked, version, sequences, summary, result, seal_order, in_flight, fetch, nodes>>

\* send_gb_request for the page of the search (line 257), then sleep(1).
call_send_gb_request_page(w) ==
    /\ limiter.pc[w] = "page"
    /\ limiter.clock >= limiter.wake[w]
    /\ limiter' = Call(w, "send_gb_request", "efetch", "batch", TRUE)
    /\ UNCHANGED <<locked, version, sequences, summary, result, seal_order, in_flight, fetch, nodes>>

\* send_gb_request for the last batch of identifiers (line 270): no sleep.
call_send_gb_request_batch(w) ==
    /\ limiter.pc[w] = "batch"
    /\ limiter.clock >= limiter.wake[w]
    /\ limiter' = Call(w, "send_gb_request", "efetch", "taxonomy", FALSE)
    /\ UNCHANGED <<locked, version, sequences, summary, result, seal_order, in_flight, fetch, nodes>>

\* save_taxonomy is entered and runs Entrez.efetch(db='taxonomy') (line 325).
call_save_taxonomy(w) ==
    /\ limiter.pc[w] = "taxonomy"
    /\ limiter.clock >= limiter.wake[w]
    /\ limiter' = Call(w, "save_taxonomy", "taxonomy", "done", FALSE)
    /\ UNCHANGED <<locked, version, sequences, summary, result, seal_order, in_flight, fetch, nodes>>

\* A second passes.
Tick ==
    /\ limiter.clock < MaxClock
    /\ limiter' = [limiter EXCEPT !.clock = @ + 1]
    /\ UNCHANGED <<locked, version, sequences, summary, result, seal_order, in_flight,
                   fetch, nodes>>

RateNext ==
    \/ \E w \in Workers : call_retrieve_gb(w)
    \/ \E w \in Workers : call_send_gb_request_page(w)
    \/ \E w \in Workers : call_send_gb_request_batch(w)
    \/ \E w \in Workers : call_save_taxonomy(w)
    \/ Tick

RateSpec == Init /\ [][RateNext]_vars

\* ------------------------------------------------- one request, one response
\* send_gb_request called once, on its own. An identifier of the request is
\* an accession number, AccessionId(a), or a version tag <<a, 1>>, <<a, 2>>.
ResponseIds == {<<a, v>> : a \in ConcAcc, v \in 0..MaxVersion}

\* The lists of identifiers handed to one call.
MaxRequest == 2
ResponseRequests == UNION {[1..n -> ResponseIds] : n \in 1..MaxRequest}

\* What parse_gb_handle makes of the response: for each accession number
\* no record, or its record under the first or under the second version tag.
FirstTag == 1
SecondTag == 3
RECURSIVE Parsed(_, _)
Parsed(answer, a) ==
    IF a > NumConcAcc THEN <<>>
    ELSE (IF answer[a] = Missing THEN <<>> ELSE <<GenbankRecord(a, answer[a])>>)
         \o Parsed(answer, a + 1)

Responses == {Parsed(answer, 1) : answer \in [ConcAcc -> {Missing, FirstTag, SecondTag}]}

\* Lines 190-193 with the version tags of the records left out of
\* successful_queries.
failed_queries_by_accession_only(accession_numbers, parsed) ==
    LET successful_queries ==
            {AccessionId(parsed[i].accession_number) : i \in DOMAIN parsed}
        Failed(d) == d \notin successful_queries
    IN SelectSeq(accession_numbers, Failed)

\* Lines 190-193: successful_queries is the accession numbers of the records
\* followed by their version tags; failed_queries the identifiers of the
\* request that are not among them, in the order of the request.
failed_queries(accession_numbers, parsed) ==
    LET successful_queries ==
            {AccessionId(parsed[i].accession_number) : i \in DOMAIN parsed}
            \cup {parsed[i].version : i \in DOMAIN parsed}
        Failed(d) == d \notin successful_queries
    IN SelectSeq(accession_numbers, Failed)

\* send_gb_request(accession_numbers, raise_if_missing), lines 150-199: the
\* request fails (HTTP 400 is raised as InsufficientAccessionData, anything
\* else as GenBankConnectionError, both carrying the whole request), or the
\* response is parsed and, with raise_if_missing, checked against the
\* request. fetch keeps the arguments and what went over the wire.
send_gb_request_call(accession_numbers, raise_if_missing) ==
    LET f == [NoFetch EXCEPT !.accession_numbers = accession_numbers,
                             !.raise_if_missing = raise_if_missing,
                             !.wire = <<Event("efetch", accession_numbers, <<>>)>>]
        call(err) == Plain("send_gb_request", 1, err, TRUE)
    IN /\ result.op = "init"
       /\ \/ \E err \in FetchErrors :
                /\ fetch' = Raised(f, err)
                /\ result' = [call(err) EXCEPT !.payload = Range(accession_numbers)]
          \/ \E parsed \in Responses :
                LET g == [f EXCEPT !.wire = Append(@, Event("response", <<>>, parsed))]
                    failed == failed_queries(accession_numbers, parsed)
                IN IF raise_if_missing /\ Len(failed) > 0
                   THEN /\ fetch' = Raised(g, "InsufficientAccessionData")
                        /\ result' = [call("InsufficientAccessionData") EXCEPT
                                         !.payload = Range(failed)]
                   ELSE /\ fetch' = [g EXCEPT !.pc = "returned", !.all_data = parsed]
                        /\ result' = [call("none") EXCEPT
                                         !.returned = {parsed[i].accession_number :
                                                          i \in DOMAIN parsed}]
       /\ UNCHANGED <<locked, version, sequences, summary, seal_order, in_flight, limiter, nodes>>

ResponseNext ==
    \E accession_numbers \in ResponseRequests, raise_if_missing \in BOOLEAN :
        send_gb_request_call(accession_numbers, raise_if_missing)

ResponseSpec == Init /\ [][ResponseNext]_vars

\* ------------------------------------------------- one add, batch by batch
\* One add_sequences_to_database(database 1, desired_numbers, search_term)
\* followed through its retrieve_gb call request by request, on a snapshot
\* that is empty or holds the record of accession 1.
BatchInit ==
    /\ locked = [d \in Dbs |-> FALSE]
    /\ version = [d \in Dbs |-> DefaultVersion]
    /\ \E held \in {{}, {GenbankRecord(1, 1)}} :
          sequences = [d \in Dbs |-> IF d = 1 THEN held ELSE {}]
    /\ summary = SequenceUpdateSummary
    /\ result = Plain("init", 1, "none", FALSE)
    /\ seal_order = <<>>
    /\ in_flight = {}
    /\ fetch = NoFetch
    /\ limiter = NoLimiter
    /\ nodes = {}

\* list(set(desired_numbers)), line 467, written in ascending order;
\* retrieve_gb puts the list in an order of its own on line 225.
RECURSIVE Ascending(_)
Ascending(S) ==
    IF S = {} THEN <<>>
    ELSE LET least == CHOOSE x \in S : \A y \in S : x <= y
         IN <<least>> \o Ascending(S \ {least})

\* The record behind an entry of all_data: that of the accession asked for,
\* or, for the hit of rank r of the search, that of accession r.
RecordOf(x) == GenbankRecord(IF x < 0 THEN 0 - x ELSE x, 1)

\* Lines 463-473: the tests before the request to the registry.
add_checks(d, desired_numbers, term) ==
    LET early == AddEarly(d, locked, desired_numbers, {}, term)
    IN /\ result.op = "init"
       /\ in_flight = {}
       /\ UNCHANGED <<locked, version, sequences, summary, seal_order, fetch, limiter, nodes>>
       /\ IF early # {}
          THEN /\ \E out \in early :
                     result' = AddResult("add_sequences_to_database", d, out, <<>>)
               /\ UNCHANGED in_flight
          ELSE /\ in_flight' = {[worker |-> 1, db |-> d, term |-> term,
                                 desired_numbers |-> desired_numbers,
                                 existing |-> AccessionsOf(sequences[d])]}
               /\ result' = Plain("retrieve_gb", d, "none", TRUE)

\* Lines 476-530 once retrieve_gb has raised, with the records of the
\* requests that had succeeded created all the same.
add_finish_keeps_batches(call) ==
    /\ call \in in_flight
    /\ fetch.pc \in {"returned", "raised"}
    /\ in_flight' = in_flight \ {call}
    /\ LET data == {RecordOf(fetch.all_data[i]) : i \in DOMAIN fetch.all_data}
           outs == IF fetch.pc = "raised"
                   THEN {[EarlyExit(fetch.error, {}) EXCEPT
                             !.fetched = TRUE, !.rows = to_create(data, call.existing)]}
                   ELSE {AddTail(data, call.existing, taxonomy) :
                            taxonomy \in TaxonomyOutcomes}
       IN \E out \in outs :
             /\ sequences' = [sequences EXCEPT ![call.db] = @ \cup out.rows]
             /\ result' = AddResult("add_sequences_to_database", call.db, out, <<>>)
    /\ UNCHANGED <<locked, version, summary, seal_order, fetch, limiter, nodes>>

\* Lines 476-530 once retrieve_gb has ended: what it raised leaves the
\* function at line 476; what it returned goes through save_taxonomy, the
\* loop, bulk_create and the log.
add_finish(call) ==
    /\ call \in in_flight
    /\ fetch.pc \in {"returned", "raised"}
    /\ in_flight' = in_flight \ {call}
    /\ LET data == {RecordOf(fetch.all_data[i]) : i \in DOMAIN fetch.all_data}
           outs == IF fetch.pc = "raised"
                   THEN {[EarlyExit(fetch.error, {}) EXCEPT !.fetched = TRUE]}
                   ELSE {AddTail(data, call.existing, taxonomy) :
                            taxonomy \in TaxonomyOutcomes}
       IN \E out \in outs :
             /\ sequences' = [sequences EXCEPT ![call.db] = @ \cup out.rows]
             /\ result' = AddResult("add_sequences_to_database", call.db, out, <<>>)
    /\ UNCHANGED <<locked, version, summary, seal_order, fetch, limiter, nodes>>

BatchNext ==
    \/ \E desired_numbers \in SUBSET FetchAcc, term \in BOOLEAN :
          add_checks(1, desired_numbers, term)
    \/ \E call \in in_flight :
          retrieve_gb(Ascending(call.desired_numbers), call.term, FALSE)
    \/ \E count \in 0..(MAX_ACCESSIONS + 1) : esearch(count)
    \/ send_gb_request
    \/ receive
    \/ \E call \in in_flight : add_finish(call)

BatchSpec == BatchInit /\ [][BatchNext]_vars

\* ------------------------------------------------- the TaxonomyNode table
\* save_taxonomy run by several workers at once, followed through its
\* TaxonomyNode.objects.get_or_create calls. get_or_create(id=..., defaults=...)
\* looks the row up by id and, finding none, inserts one with the defaults;
\* an insert that meets a row of the same id fails on the primary key, and
\* get_or_create then looks the row up again. The lookup and the insert are
\* two statements, so the model splits the call between them.
NumTaxIds == 2
TaxIds == 1..NumTaxIds
TaxonNames == {"n0", "n1"}

\* A level of LineageEx: ranks outside the eight of lines 351-376 are
\* skipped by the `else: continue` of line 378.
Levels == [id : TaxIds, rank : {"genus", "clade"}, scientific_name : TaxonNames]

\* The get_or_create calls of lines 384 and 391 for one record, in order:
\* one for each level of the lineage with a rank that is kept (the dict
\* `taxids` of line 339 stays empty, so line 346 never skips), then one for
\* the taxon of the record itself, as a species.
ToResolve(lineage, entry) ==
    LET Kept(level) == level.rank # "clade"
    IN SelectSeq(lineage, Kept)
       \o <<[id |-> entry.id, rank |-> "species", scientific_name |-> entry.scientific_name]>>

\* The rows get(id=...) finds.
NodesWithId(id) == {n \in nodes : n.id = id}

\* save_taxonomy for one record up to line 340: the lineage request fails
\* (TaxonomyConnectionError), or the registry does not know the taxon and
\* the record is passed over (line 343), or the lineage is to be resolved.
save_taxonomy(w, lineage, entry, answer) ==
    /\ \A c \in in_flight : c.worker # w
    /\ IF answer = "TaxonomyConnectionError"
       THEN /\ result' = Plain("save_taxonomy", w, "TaxonomyConnectionError", TRUE)
            /\ UNCHANGED in_flight
       ELSE IF answer = "unknown"
       THEN /\ result' = Plain("save_taxonomy", w, "none", TRUE)
            /\ UNCHANGED in_flight
       ELSE /\ result' = Plain("efetch", w, "none", TRUE)
            /\ in_flight' = in_flight \cup
                  {[worker |-> w, todo |-> ToResolve(lineage, entry), pc |-> "get"]}
    /\ UNCHANGED <<locked, version, sequences, summary, seal_order, fetch, limiter, nodes>>

\* The call as `result` records it: the row returned and `created`.
Resolved(call, node, created) ==
    [Plain("get_or_create", call.worker, "none", FALSE) EXCEPT
        !.returned = {node}, !.count = IF created THEN 1 ELSE 0]

\* The worker goes on to its next get_or_create, or has returned.
Advance(call) ==
    (in_flight \ {call})
    \cup (IF Len(call.todo) > 1
          THEN {[call EXCEPT !.todo = Tail(@), !.pc = "get"]}
          ELSE {})

\* get_or_create, first half: the lookup by id. A row found is returned
\* as it is; without one the call goes on to the insert.
get_or_create_get(call) ==
    /\ call \in in_flight
    /\ call.pc = "get"
    /\ LET wanted == Head(call.todo)
       IN IF NodesWithId(wanted.id) # {}
          THEN \E node \in NodesWithId(wanted.id) :
                  /\ result' = Resolved(call, node, FALSE)
                  /\ in_flight' = Advance(call)
          ELSE /\ result' = Plain("get", call.worker, "DoesNotExist", FALSE)
               /\ in_flight' = (in_flight \ {call}) \cup {[call EXCEPT !.pc = "create"]}
    /\ UNCHANGED <<locked, version, sequences, summary, seal_order, fetch, limiter, nodes>>

\* The insert on a table that accepts a second row of an id.
get_or_create_create_any(call) ==
    /\ call \in in_flight
    /\ call.pc = "create"
    /\ nodes' = nodes \cup {Head(call.todo)}
    /\ result' = Resolved(call, Head(call.todo), TRUE)
    /\ in_flight' = Advance(call)
    /\ UNCHANGED <<locked, version, sequences, summary, seal_order, fetch, limiter>>

\* get_or_create, second half: the insert with the defaults. When another
\* worker has inserted a row of the id meanwhile the insert is refused
\* (IntegrityError), and the row that is there is looked up and returned.
get_or_create_create(call) ==
    /\ call \in in_flight
    /\ call.pc = "create"
    /\ LET wanted == Head(call.todo)
       IN IF NodesWithId(wanted.id) = {}
          THEN /\ nodes' = nodes \cup {wanted}
               /\ result' = Resolved(call, wanted, TRUE)
          ELSE /\ UNCHANGED nodes
               /\ \E node \in NodesWithId(wanted.id) :
                     result' = Resolved(call, node, FALSE)
    /\ in_flight' = Advance(call)
    /\ UNCHANGED <<locked, version, sequences, summary, seal_order, fetch, limiter>>

TaxonomyNext ==
    \/ \E w \in Workers, lineage \in {<<>>} \cup {<<l>> : l \in Levels},
          entry \in [id : TaxIds, scientific_name : TaxonNames],
          answer \in {"TaxonomyConnectionError", "unknown", "known"} :
             save_taxonomy(w, lineage, entry, answer)
    \/ \E call \in in_flight : get_or_create_get(call)
    \/ \E call \in in_flight : get_or_create_create(call)

TaxonomySpec == Init /\ [][TaxonomyNext]_vars

\* ------------------------------------------------- save_sequence, field by field
\* save_sequence applied once to an instance of snapshot 1, which is locked
\* or not and holds, for each accession number of ConcAcc, no row or the
\* record of one revision.
SaveInit ==
    /\ locked \in [Dbs -> BOOLEAN]
    /\ version = [d \in Dbs |-> DefaultVersion]
    /\ \E held \in [ConcAcc -> {Missing} \cup Revisions] :
          sequences = [d \in Dbs |->
              IF d = 1
              THEN {GenbankRecord(a, held[a]) : a \in {x \in ConcAcc : held[x] # Missing}}
              ELSE {}]
    /\ summary = SequenceUpdateSummary
    /\ result = Plain("init", 1, "none", FALSE)
    /\ seal_order = <<>>
    /\ in_flight = {}
    /\ fetch = NoFetch
    /\ limiter = NoLimiter
    /\ nodes = {}

\* An instance that has its accession number and owner and nothing else.
Unpopulated(a) ==
    [f \in DOMAIN GenbankRecord(a, 1) |->
        IF f = "accession_number" THEN a
        ELSE IF f \in {"version", "dna_sequence"} THEN <<>> ELSE ""]

\* The instances a caller hands over: a row of the snapshot, or a new one.
Instances(d) == sequences[d] \cup {Unpopulated(a) : a \in ConcAcc}

\* save_sequence(obj, commit, raise_errors), lines 532-612, for an instance
\* of snapshot d, when retrieve_gb ends as gb (with revision k of the
\* record when "ok") and save_taxonomy as taxonomy. `returned` holds the
\* instance as the function returns it.
\*  - lines 550-575: the locked owner and the duplicate accession are raised
\*    with raise_errors and printed without;
\*  - lines 579-587: a failed fetch (or the IndexError of `[0]` on an empty
\*    list) is raised, or leaves currentData = {};
\*  - lines 590-612: save_taxonomy([currentData]) is the first statement of
\*    the try block, the writes to obj and serializer.save() follow it, and
\*    the except clause either raises or returns obj.
save_sequence_instance(d, obj, commit, raise_errors, gb, k, taxonomy) ==
    LET op == "save_sequence"
        accession_number == obj.accession_number
        others == sequences[d] \ {obj}
        duplicate == accession_number \in AccessionsOf(others)
        currentData == GenbankRecord(accession_number, k)
        asked == [NoFetch EXCEPT !.accession_numbers = <<accession_number>>]
        back(o) == [Plain(op, d, "none", TRUE) EXCEPT !.returned = {o}]
    IN /\ result.op = "init"
       /\ obj \in Instances(d)
       /\ UNCHANGED <<locked, version, summary, seal_order, in_flight, limiter, nodes>>
       /\ IF raise_errors /\ locked[d]
          THEN /\ result' = Plain(op, d, "ValueError", FALSE)
               /\ UNCHANGED <<sequences, fetch>>
          ELSE IF raise_errors /\ duplicate
          THEN /\ result' = [Plain(op, d, "AccessionsAlreadyExist", FALSE)
                                EXCEPT !.payload = {accession_number}]
               /\ UNCHANGED <<sequences, fetch>>
          ELSE IF gb # "ok"
          THEN /\ fetch' = Raised(asked, gb)
               /\ result' = IF raise_errors THEN Plain(op, d, gb, TRUE) ELSE back(obj)
               /\ UNCHANGED sequences
          ELSE /\ fetch' = [asked EXCEPT !.pc = "returned", !.all_data = <<currentData>>]
               /\ IF taxonomy # "ok"
                  THEN /\ result' = IF raise_errors THEN Plain(op, d, taxonomy, TRUE)
                                    ELSE back(obj)
                       /\ UNCHANGED sequences
                  ELSE /\ result' = back(currentData)
                       /\ sequences' = [sequences EXCEPT ![d] =
                             IF commit THEN others \cup {currentData} ELSE @]

SaveNext ==
    \E obj \in Instances(1), commit, raise_errors \in BOOLEAN,
       gb \in FetchOutcomes \cup {"IndexError"}, k \in Revisions,
       taxonomy \in TaxonomyOutcomes :
          save_sequence_instance(1, obj, commit, raise_errors, gb, k, taxonomy)

SaveSpec == SaveInit /\ [][SaveNext]_vars

\* ------------------------------------------------- concurrent seals
\* save_blastdb(obj, perform_lock=True) run by several workers at once.
\* The function reads the latest sealed snapshot of the library and works
\* out version_nums (lines 85-97), then writes the .fasta file and runs
\* makeblastdb (lines 99-134), then sets the fields of obj and saves it
\* (lines 136-145). Nothing in it takes a lock or opens a transaction, so
\* the model splits the call between the read and the save.
seal_begin(w, d) ==
    /\ \A c \in in_flight : c.worker # w
    /\ \E last \in (IF latest(locked, version, LibraryOf(d)) = {} THEN {NoLast}
                    ELSE latest(locked, version, LibraryOf(d))) :
          LET s1 == IF last = NoLast THEN summary
                    ELSE calculate_update_summary(sequences[last], sequences[d], summary)
              nums == IF last = NoLast THEN FirstVersion
                      ELSE version_nums(version[last], s1)
          IN /\ summary' = s1
             /\ in_flight' = in_flight \cup
                   {[worker |-> w, db |-> d, lastPublished |-> last, version_nums |-> nums]}
    /\ result' = Plain("latest", d, "none", FALSE)
    /\ UNCHANGED <<locked, version, sequences, seal_order, fetch, limiter, nodes>>

\* Lines 99-145 of a call under way: the files are built and obj is saved
\* locked, with the version worked out before.
seal_end(call) ==
    /\ call \in in_flight
    /\ in_flight' = in_flight \ {call}
    /\ locked' = [locked EXCEPT ![call.db] = TRUE]
    /\ version' = [version EXCEPT ![call.db] = call.version_nums]
    /\ \E build_ok \in BOOLEAN :
          result' = Outcome("save_blastdb", call.db, "none", FALSE,
                            <<<<"Locked database">>>>,
                            IF build_ok THEN "built" ELSE "failed")
    /\ seal_order' = Append(Without(seal_order, call.db), call.db)
    /\ UNCHANGED <<sequences, summary, fetch, limiter, nodes>>

SealNext ==
    \/ \E d \in Dbs, a \in Acc, k \in Revisions : NuccoreSequence_save(d, a, k)
    \/ \E w \in Workers, d \in Dbs : seal_begin(w, d) /\ Bounded'
    \/ \E call \in in_flight : seal_end(call) /\ Bounded'

SealSpec == Init /\ [][SealNext]_vars

\* ------------------------------------------------- parse_gb_handle: type material
\* The value parse_gb_handle gives 'type_material' for one record. A text is
\* written as the sequence of its pieces, '' as <<>>; LineBreak is the "\n"
\* that joins the notes.
Pieces == {"type: ", "Type: ", "holotype", "Paratype", "voucher"}
LineBreak == "\n"

\* str.lower() of a piece.
Lower(piece) ==
    IF piece = "Type: " THEN "type: "
    ELSE IF piece = "Paratype" THEN "paratype"
    ELSE piece

lower(text) == [i \in DOMAIN text |-> Lower(text[i])]

\* The values of one qualifier: texts of up to MaxPieces pieces.
MaxPieces == 3
Texts == UNION {[1..n -> Pieces] : n \in 1..MaxPieces}

\* The qualifiers of a source feature that the value depends on: which of
\* /type_material and /note are there, and their lists of values (the
\* parser gives every qualifier at least one value, possibly '').
SourceQualifiers ==
    [names : SUBSET {"type_material", "note"},
     type_material : {<<<<>>>>, <<<<"holotype", "voucher">>>>},
     note : {<<t>> : t \in Texts} \cup {<<t, <<"voucher">>>> : t \in Texts}]

\* "\n".join(notes), line 128.
RECURSIVE Join(_)
Join(notes) ==
    IF Len(notes) = 0 THEN <<>>
    ELSE IF Len(notes) = 1 THEN notes[1]
    ELSE notes[1] \o <<LineBreak>> \o Join(Tail(notes))

\* Lines 96-142 for 'type_material': 'N/A' without a source feature (line
\* 102); else the first value of /type_material ('error' when the list is
\* empty, lines 116-119; '' when the qualifier is not there, line 122); and
\* when that is '' and there is a /note, the joined notes - cut by the six
\* characters of 'type: ' when they name a type, start with it in lower
\* case and are longer than it - which the finally clause of line 141
\* assigns whether or not they name a type.
type_material(has_source, qualifiers) ==
    IF ~has_source THEN <<"N/A">>
    ELSE LET found == IF "type_material" \notin qualifiers.names THEN <<>>
                      ELSE IF Len(qualifiers.type_material) = 0 THEN <<"error">>
                      ELSE qualifiers.type_material[1]
         IN IF found = <<>> /\ "note" \in qualifiers.names
            THEN LET notes == Join(qualifiers.note)
                     notes_lower == lower(notes)
                 IN IF \E i \in DOMAIN notes_lower :
                          notes_lower[i] \in {"paratype", "holotype"}
                    THEN IF notes_lower[1] = "type: " /\ Len(notes_lower) > 1
                         THEN Tail(notes)
                         ELSE notes
                    ELSE notes
            ELSE found

\* parse_gb_handle on a response of one record: the record it returns, as
\* far as 'type_material' goes.
parse_gb_handle(has_source, qualifiers) ==
    /\ result.op = "init"
    /\ result' = [Plain("parse_gb_handle", 1, "none", FALSE) EXCEPT
                     !.returned = {[type_material |-> type_material(has_source, qualifiers)]}]
    /\ UNCHANGED <<locked, version, sequences, summary, seal_order, in_flight, fetch, limiter, nodes>>

ParseNext ==
    \E has_source \in BOOLEAN, qualifiers \in SourceQualifiers :
        parse_gb_handle(has_source, qualifiers)

ParseSpec == Init /\ [][ParseNext]_vars

\* ------------------------------------------------- add with filters
\* add_sequences_to_database(database, desired_numbers, min_length, ...,
\* require_taxonomy) applied once to snapshot 1, which holds for each
\* accession number of ConcAcc no row or its base record, the registry
\* answering with any of the revisions 1..NumFilterRevisions.
AddFilterInit ==
    /\ locked = [d \in Dbs |-> FALSE]
    /\ version = [d \in Dbs |-> DefaultVersion]
    /\ \E held \in SUBSET ConcAcc :
          sequences = [d \in Dbs |->
              IF d = 1 THEN {GenbankRecord(a, 1) : a \in held} ELSE {}]
    /\ summary = SequenceUpdateSummary
    /\ result = Plain("init", 1, "none", FALSE)
    /\ seal_order = <<>>
    /\ in_flight = {}
    /\ fetch = NoFetch
    /\ limiter = NoLimiter
    /\ nodes = {}

\* len([base for base in sequence if base == 'N']), line 503.
AmbiguousN(sequence) ==
    Cardinality({i \in DOMAIN sequence : sequence[i] = "N"})

\* Lines 494-516: the tests that pass a fetched record over.
PassedOver(data, min_length, max_length, max_ambiguous_bases, blacklist, require_taxonomy) ==
    \/ min_length > -1 /\ Len(data.dna_sequence) < min_length
    \/ max_length > -1 /\ Len(data.dna_sequence) > max_length
    \/ max_ambiguous_bases > -1 /\ AmbiguousN(data.dna_sequence) > max_ambiguous_bases
    \/ require_taxonomy /\ data.taxonomy = "missing"
    \/ AccessionId(data.accession_number) \in blacklist
    \/ data.version \in blacklist

\* The lists retrieve_gb can return for the accession numbers asked for:
\* for each of them no record or the record of one revision.
FilterResponses(desired_numbers) ==
    {Parsed(answer, 1) :
        answer \in {g \in [ConcAcc -> {Missing} \cup 1..NumFilterRevisions] :
                       \A a \in ConcAcc \ desired_numbers : g[a] = Missing}}

\* The whole function with its filter arguments f, when retrieve_gb ends as
\* gb (returning genbank_data when "ok") and save_taxonomy as taxonomy:
\* lines 463-473, the two calls, the loop of lines 482-521, bulk_create and
\* the log. fetch keeps the request and what retrieve_gb returned.
add_sequences_with_filters(d, desired_numbers, f, gb, genbank_data, taxonomy) ==
    LET early == AddEarly(d, locked, desired_numbers, {}, FALSE)
        existing == AccessionsOf(sequences[d])
        asked == [NoFetch EXCEPT !.accession_numbers = Ascending(desired_numbers)]
        kept == {data \in Range(genbank_data) :
                    /\ data.accession_number \notin existing
                    /\ ~PassedOver(data, f.min_length, f.max_length,
                                   f.max_ambiguous_bases, f.blacklist,
                                   f.require_taxonomy)}
        err == log_added_sequences(kept)
        late == IF gb # "ok" THEN [EarlyExit(gb, {}) EXCEPT !.fetched = TRUE]
                ELSE IF taxonomy # "ok"
                THEN [EarlyExit(taxonomy, {}) EXCEPT !.fetched = TRUE]
                ELSE [error |-> err, fetched |-> TRUE, payload |-> {}, rows |-> kept,
                      logged |-> IF err = "none"
                                 THEN <<append_change_reason(<<>>, "Added sequences")>>
                                 ELSE <<>>]
    IN /\ result.op = "init"
       /\ fetch' = IF early # {} THEN fetch
                   ELSE IF gb # "ok" THEN Raised(asked, gb)
                   ELSE [asked EXCEPT !.pc = "returned", !.all_data = genbank_data]
       /\ \E out \in (IF early # {} THEN early ELSE {late}) :
             /\ sequences' = [sequences EXCEPT ![d] = @ \cup out.rows]
             /\ result' = AddResult("add_sequences_to_database", d, out, <<>>)
       /\ UNCHANGED <<locked, version, summary, seal_order, in_flight, limiter, nodes>>

AddFilterNext ==
    \E desired_numbers \in SUBSET ConcAcc, f \in FilterInputs, gb \in FetchOutcomes,
       taxonomy \in TaxonomyOutcomes :
          \E genbank_data \in FilterResponses(desired_numbers) :
             add_sequences_with_filters(1, desired_numbers, f, gb, genbank_data, taxonomy)

AddFilterSpec == AddFilterInit /\ [][AddFilterNext]_vars

\* ================================================================ claims
\* The vocabulary of the claims, stated on sets of accession numbers.
Added(previous, current) == AccessionsOf(current) \ AccessionsOf(previous)
Deleted(previous, current) == AccessionsOf(previous) \ AccessionsOf(current)
InBoth(previous, current) == AccessionsOf(previous) \cap AccessionsOf(current)

VersionChanged(previous, current) ==
    {a \in InBoth(previous, current) :
        \/ RowOf(current, a).version # RowOf(previous, a).version
        \/ RowOf(current, a).dna_sequence # RowOf(previous, a).dna_sequence}

MetadataFields ==
    {"definition", "organism", "organelle", "isolate", "country",
     "specimen_voucher", "type_material", "lat_lon"}

MetadataChanged(previous, current) ==
    {a \in InBoth(previous, current) \ VersionChanged(previous, current) :
        \E f \in MetadataFields : RowOf(current, a)[f] # RowOf(previous, a)[f]}

Unchanged(previous, current) ==
    InBoth(previous, current)
        \ (VersionChanged(previous, current) \cup MetadataChanged(previous, current))

\* The version policy of the claims, on a summary s and on a pair of record sets.
Ladder(v, s) ==
    IF s.added # <<>> \/ s.deleted # <<>> \/ s.accession_version_changed # <<>>
    THEN <<v[1] + 1, 0, 0>>
    ELSE IF s.metadata_changed # <<>> THEN <<v[1], v[2] + 1, 0>>
         ELSE <<v[1], v[2], v[3] + 1>>

LadderOfDiff(v, previous, current) ==
    IF Added(previous, current) \cup Deleted(previous, current)
          \cup VersionChanged(previous, current) # {}
    THEN <<v[1] + 1, 0, 0>>
    ELSE IF MetadataChanged(previous, current) # {} THEN <<v[1], v[2] + 1, 0>>
         ELSE <<v[1], v[2], v[3] + 1>>

Count(list, a) == Cardinality({i \in 1..Len(list) : list[i] = a})
Listed(list) == {list[i] : i \in 1..Len(list)}

\* The snapshots of the library of d in the order they were sealed, and the
\* most recently sealed one (no element when the library has none).
SealedOf(d) == SelectSeq(seal_order, LAMBDA e : LibraryOf(e) = LibraryOf(d))
PreviousOf(d) == IF SealedOf(d) = <<>> THEN {} ELSE {SealedOf(d)[Len(SealedOf(d))]}

\* The last call was save_blastdb on snapshot d.
SealOf(d) == result.op = "save_blastdb" /\ result.db = d

\* C1: when a call has diffed a previous and a current record set, the five
\* buckets of the summary it holds partition the union of the accession
\* numbers of both sets: every accession of the union is listed exactly
\* once, in exactly one bucket, and nothing else is listed.
C1_BucketsPartitionUnion ==
    [][\A d \in Dbs : \A p \in PreviousOf(d) :
          SealOf(d)' =>
            LET ids == AccessionsOf(sequences[p]) \cup AccessionsOf(sequences[d])
                s == summary'
            IN /\ \A a \in ids :
                    Count(s.added, a) + Count(s.deleted, a)
                      + Count(s.accession_version_changed, a)
                      + Count(s.metadata_changed, a) + Count(s.no_change, a) = 1
               /\ UNION {Listed(s[b]) : b \in Buckets} \subseteq ids]_vars

\* C2: after a diff, an accession of both sets is in version_changed iff
\* its version tag or sequence differs, in metadata_changed iff those are
\* identical and a metadata field differs, in unchanged otherwise; the
\* accessions only in current are the added ones, those only in previous
\* the deleted ones.
C2_BucketOfEachAccession ==
    [][\A d \in Dbs : \A p \in PreviousOf(d) :
          SealOf(d)' =>
            LET previous == sequences[p]
                current == sequences[d]
                s == summary'
            IN /\ Listed(s.accession_version_changed) = VersionChanged(previous, current)
               /\ Listed(s.metadata_changed) = MetadataChanged(previous, current)
               /\ Listed(s.no_change) = Unchanged(previous, current)
               /\ Listed(s.added) = Added(previous, current)
               /\ Listed(s.deleted) = Deleted(previous, current)]_vars

\* C3: the version a seal assigns is the ladder applied to the previous
\* sealed version (g, m, n) and the summary of the call: (g+1, 0, 0) if
\* added, deleted or version_changed is non-empty, else (g, m+1, 0) if
\* metadata_changed is non-empty, else (g, m, n+1).
C3_VersionLadder ==
    [][\A d \in Dbs : \A p \in PreviousOf(d) :
          SealOf(d)' => version'[d] = Ladder(version[p], summary')]_vars

\* C3: a seal has run on a summary with added and metadata_changed both
\* non-empty and assigned (g+1, 0, 0).
C3_AddedAndMetadataSealed ==
    /\ result.op = "save_blastdb"
    /\ summary.added # <<>>
    /\ summary.metadata_changed # <<>>
    /\ \E p \in Dbs : p # result.db /\ locked[p]
                        /\ version[result.db] = <<version[p][1] + 1, 0, 0>>

\* C4: sealing an unlocked snapshot assigns the policy applied to the
\* version of the most recently sealed snapshot of the library and to the
\* diff of that snapshot's records and the sealed snapshot's records, and
\* (1, 0, 0) when the library has no sealed snapshot.
C4_SealAssignsPolicyOfDiff ==
    [][\A d \in Dbs :
          SealOf(d)' /\ ~locked[d] =>
            IF PreviousOf(d) = {} THEN version'[d] = <<1, 0, 0>>
            ELSE \A p \in PreviousOf(d) :
                    version'[d] = LadderOfDiff(version[p], sequences[p], sequences[d])]_vars

\* C5: a sealed snapshot stays locked, and no later operation changes its
\* records or its version.
C5_SealedSnapshotFrozen ==
    [][\A d \in Dbs :
          locked[d] => /\ locked'[d]
                       /\ sequences'[d] = sequences[d]
                       /\ version'[d] = version[d]]_vars

\* C6: save_blastdb on a locked snapshot fails with DatabaseLocked and
\* changes nothing: version, locked flag, change log and artifact stay.
C6_SealOfLockedFails ==
    [][\A d \in Dbs :
          SealOf(d)' /\ locked[d] =>
            /\ result'.error = "DatabaseLocked"
            /\ version'[d] = version[d]
            /\ locked'[d]
            /\ result'.logged = <<>>
            /\ result'.build = "not run"]_vars

\* C7: when the build tool fails during a seal of an unlocked snapshot, the
\* seal ends with an error and the snapshot stays unlocked, keeps its
\* version, and no change-log entry is persisted.
C7_BuildFailureAborts ==
    [][\A d \in Dbs :
          SealOf(d)' /\ ~locked[d] /\ result'.build = "failed" =>
            /\ result'.error # "none"
            /\ ~locked'[d]
            /\ version'[d] = version[d]
            /\ result'.logged = <<>>]_vars

\* C8: within a library, the versions of the sealed snapshots, taken in the
\* order the snapshots were sealed, never decrease in the lexicographic
\* order of (genbank_version, major_version, minor_version).
C8_SealedVersionsNonDecreasing ==
    \A i, j \in 1..Len(seal_order) :
        i < j /\ LibraryOf(seal_order[i]) = LibraryOf(seal_order[j])
            => VersionLeq(version[seal_order[i]], version[seal_order[j]])

\* C8: two snapshots of one library are sealed, the later with the higher
\* version.
C8_TwoSealedInOrder ==
    /\ Len(seal_order) >= 2
    /\ LibraryOf(seal_order[1]) = LibraryOf(seal_order[2])
    /\ VersionLess(version[seal_order[1]], version[seal_order[2]])

\* C9 as stated: the next version has no component below the component of
\* the previous version and at least one component above it.
C9_NoComponentDecreases ==
    [][\A d \in Dbs : \A p \in PreviousOf(d) :
          SealOf(d)' =>
            /\ \A i \in 1..3 : version'[d][i] >= version[p][i]
            /\ \E i \in 1..3 : version'[d][i] > version[p][i]]_vars

\* C9 amended: the next version raises exactly one component by one, keeps
\* the components before it and sets the components after it to 0, so it is
\* greater than the previous version in the lexicographic order.
C9_LexicographicIncrease ==
    [][\A d \in Dbs : \A p \in PreviousOf(d) :
          SealOf(d)' =>
            /\ \E i \in 1..3 :
                  /\ version'[d][i] = version[p][i] + 1
                  /\ \A j \in 1..3 : j < i => version'[d][j] = version[p][j]
                  /\ \A j \in 1..3 : j > i => version'[d][j] = 0
            /\ VersionLess(version[p], version'[d])]_vars

\* C9: a seal raised the genbank version of a previous version whose major
\* version was above 0, which the seal set back to 0.
C9_MajorBumpResetsMinor ==
    /\ result.op = "save_blastdb"
    /\ \E p \in Dbs : /\ p # result.db
                      /\ locked[p]
                      /\ version[result.db] = <<version[p][1] + 1, 0, 0>>
                      /\ version[p][2] > 0

\* C10: add, update, delete and filter on a locked snapshot fail with
\* DatabaseLocked before any fetch and leave records and change log alone.
C10_LockedRejectsMutation ==
    [][\A d \in Dbs :
          (/\ locked[d]
           /\ result'.db = d
           /\ result'.op \in {"add_sequences_to_database",
                               "update_sequences_in_database",
                               "delete_sequences_in_database",
                               "filter_sequences_in_database"})
            => /\ result'.error = "DatabaseLocked"
               /\ ~result'.fetched
               /\ sequences'[d] = sequences[d]
               /\ result'.logged = <<>>]_vars

C12_ConflictRejectsAdd ==
    [][\A d \in Dbs, desired_numbers \in SUBSET ConcAcc :
          (/\ ~locked[d]
           /\ desired_numbers \cap AccessionsOf(sequences[d]) # {}
           /\ \/ \E w \in Workers : add_begin(w, d, desired_numbers)
              \/ \E has_term \in BOOLEAN :
                    add_sequences_to_database(d, desired_numbers, has_term))
            => /\ result'.error = "AccessionsAlreadyExist"
               /\ result'.payload = desired_numbers \cap AccessionsOf(sequences[d])
               /\ ~result'.fetched
               /\ sequences' = sequences
               /\ result'.logged = <<>>
               /\ in_flight' = in_flight]_vars

\* C12: an add on a snapshot that holds accession number 1 alone was refused
\* with AccessionsAlreadyExist, the exception naming accession number 1.
C12_ConflictAmongRequested ==
    /\ result.op = "add_sequences_to_database"
    /\ result.error = "AccessionsAlreadyExist"
    /\ result.payload = {1}
    /\ AccessionsOf(sequences[result.db]) = {1}

ToFilterOut(rows, f) ==
    {r \in rows :
        \/ AccessionId(r.accession_number) \in f.blacklist
        \/ r.version \in f.blacklist
        \/ f.min_length # -1 /\ Len(r.dna_sequence) < f.min_length
        \/ f.max_length # -1 /\ Len(r.dna_sequence) > f.max_length
        \/ /\ f.max_ambiguous_bases # -1
           /\ Cardinality({i \in DOMAIN r.dna_sequence : r.dna_sequence[i] \in {"N", "n"}})
                 > f.max_ambiguous_bases
        \/ f.require_taxonomy /\ r.taxonomy = "missing"}

\* C14: filter_sequences_in_database removes exactly the rows that are
\* blacklisted, outside the length bounds, above the bound on ambiguous
\* bases, or without lineage when taxonomy is required; the other rows stay
\* as they are.
C14_FilterRemovesExactlyViolations ==
    [][\A f \in FilterInputs :
          filter_sequences_in_database(1, f.min_length, f.max_length,
                                       f.max_ambiguous_bases, f.blacklist,
                                       f.require_taxonomy)
            => sequences'[1] = sequences[1] \ ToFilterOut(sequences[1], f)]_vars

\* C15: delete_sequences_in_database on an unlocked snapshot removes exactly
\* the rows whose accession number is in the list, leaves the other rows and
\* the other snapshots as they are, raises no error and returns the number
\* of rows removed (0 when none matched).
C15_DeleteRemovesListedAndCounts ==
    [][\A d \in Dbs, desired_nums \in SUBSET Acc :
          (~locked[d] /\ delete_sequences_in_database(d, desired_nums))
            => LET removed == {r \in sequences[d] : r.accession_number \in desired_nums}
               IN /\ sequences' = [sequences EXCEPT ![d] = @ \ removed]
                  /\ result'.error = "none"
                  /\ result'.count = Cardinality(removed)]_vars

\* C16: after a delete_sequences_in_database call that removed at least one
\* row, the change-log entry saved has the reason 'Deleted sequences' and
\* its `deleted` field lists the version tags of exactly the rows removed.
C16_DeletedFieldListsRemoved ==
    [][\A d \in Dbs, desired_nums \in SUBSET Acc :
          LET removed == {r \in sequences[d] : r.accession_number \in desired_nums}
          IN (/\ ~locked[d]
              /\ delete_sequences_in_database(d, desired_nums)
              /\ removed # {})
               => /\ result'.logged = <<<<"Deleted sequences">>>>
                  /\ result'.deleted = {r.version : r \in removed}]_vars

C18_EmptyListUpdatesAll ==
    [][\A d \in Dbs :
          (/\ ~locked[d]
           /\ sequences[d] # {}
           /\ update_sequences_in_database(d, {}))
            => /\ result'.fetched
               /\ result'.error \in {"none"} \cup FetchErrors
               /\ result'.error = "none" =>
                     /\ result'.returned = AccessionsOf(sequences[d])
                     /\ AccessionsOf(sequences'[d]) = AccessionsOf(sequences[d])]_vars

\* The requests for record data sent so far.
DataRequests(wire) == SelectSeq(wire, LAMBDA e : e.kind = "efetch")

\* C19: a retrieve_gb call above the ceiling ends with
\* AccessionLimitExceeded and no request for record data: with more than
\* MAX_ACCESSIONS distinct identifiers nothing at all was sent, and with a
\* search whose count is above MAX_ACCESSIONS the count query alone was sent.
C19_CeilingBeforeData ==
    /\ Cardinality(Range(fetch.accession_numbers)) > MAX_ACCESSIONS
          => /\ fetch.pc = "raised"
             /\ fetch.error = "AccessionLimitExceeded"
             /\ fetch.wire = <<>>
    /\ fetch.found > MAX_ACCESSIONS
          => /\ fetch.pc = "raised"
             /\ fetch.error = "AccessionLimitExceeded"
             /\ fetch.wire = <<Event("esearch", <<>>, <<>>)>>
             /\ DataRequests(fetch.wire) = <<>>

\* C19: a call with more distinct identifiers than the ceiling was refused.
C19_ListAboveCeilingRefused ==
    /\ Cardinality(Range(fetch.accession_numbers)) = MAX_ACCESSIONS + 1
    /\ fetch.error = "AccessionLimitExceeded"

\* C19: a call within the ceiling whose search reported more hits than the
\* ceiling was refused after the count query.
C19_SearchAboveCeilingRefused ==
    /\ Len(fetch.accession_numbers) = MAX_ACCESSIONS
    /\ fetch.found = MAX_ACCESSIONS + 1
    /\ fetch.error = "AccessionLimitExceeded"

\* The requests for the identifiers of the list sent so far.
IdBatches(wire) == SelectSeq(wire, LAMBDA e : e.kind = "efetch" /\ e.ids # <<>>)

\* How often identifier a was put in a request.
TimesRequested(a, batches) ==
    Cardinality({<<i, j>> \in (DOMAIN batches) \X (1..ACCESSIONS_PER_REQUEST) :
                    j <= Len(batches[i].ids) /\ batches[i].ids[j] = a})

\* The records of the responses, in the order received.
RECURSIVE Received(_)
Received(wire) ==
    IF wire = <<>> THEN <<>>
    ELSE (IF Head(wire).kind = "response" THEN Head(wire).data ELSE <<>>)
         \o Received(Tail(wire))

\* C20: for a list within the ceiling, retrieve_gb puts no identifier in
\* more than one request and, once it has returned, every distinct
\* identifier of the list in exactly one; no request holds more than
\* ACCESSIONS_PER_REQUEST identifiers; a request is sent only after the
\* response to the one before it; the list returned is the records of the
\* responses in the order of the requests.
C20_BatchesCoverRequestOnce ==
    LET batches == IdBatches(fetch.wire)
        distinct == Range(fetch.accession_numbers)
        wire == fetch.wire
    IN Len(fetch.accession_numbers) <= MAX_ACCESSIONS
         => /\ \A i \in DOMAIN batches :
                  /\ Len(batches[i].ids) <= ACCESSIONS_PER_REQUEST
                  /\ Range(batches[i].ids) \subseteq distinct
            /\ \A a \in distinct : TimesRequested(a, batches) <= 1
            /\ fetch.pc = "returned" =>
                  \A a \in distinct : TimesRequested(a, batches) = 1
            /\ \A i \in 1..(Len(wire) - 1) :
                  wire[i].kind = "efetch" => wire[i + 1].kind = "response"
            /\ fetch.pc = "returned" => fetch.all_data = Received(wire)

\* C20: a call whose list repeats an identifier has returned after two
\* requests, with a record for every distinct identifier of the list.
C20_RepeatedListInTwoBatches ==
    /\ fetch.pc = "returned"
    /\ ~fetch.term
    /\ Cardinality(Range(fetch.accession_numbers)) < Len(fetch.accession_numbers)
    /\ Len(IdBatches(fetch.wire)) = 2
    /\ Len(fetch.all_data) = Cardinality(Range(fetch.accession_numbers))

\* C21: any two calls sent to the registry (count query, record request,
\* lineage request), by whichever callers, are at least PERIOD apart.
C21_OneOutboundCallPerPeriod ==
    \A i, j \in DOMAIN limiter.outbound :
        i < j => limiter.outbound[j].at - limiter.outbound[i].at >= PERIOD

\* The response of the one request of the call, once it has arrived.
Answered == Len(fetch.wire) = 2 /\ fetch.wire[2].kind = "response"
AnswerOf == fetch.wire[2].data

\* The identifiers of the request that no record of the response answers: an
\* identifier is answered by a record whose accession number or whose
\* version tag it is.
AbsentFromAnswer ==
    {d \in Range(fetch.accession_numbers) :
        ~ \E i \in DOMAIN AnswerOf :
            \/ d = AccessionId(AnswerOf[i].accession_number)
            \/ d = AnswerOf[i].version}

C23_FailedFetchAddsNothing ==
    [][/\ fetch.pc = "raised" => (fetch'.pc = "raised" /\ fetch'.wire = fetch.wire)
       /\ (in_flight # {} /\ in_flight' # {}) => sequences' = sequences
       /\ (in_flight # {} /\ in_flight' = {} /\ fetch.pc = "raised") =>
              /\ sequences' = sequences
              /\ result'.op = "add_sequences_to_database"
              /\ result'.error = fetch.error
              /\ result'.error \in FetchErrors \cup {"AccessionLimitExceeded"}]_vars

\* An add on a snapshot holding one row got the records of its first batch,
\* then a request failed: the call has ended with the error and the snapshot
\* holds that one row.
C23_SecondBatchFailed ==
    /\ result.op = "add_sequences_to_database"
    /\ result.error = "GenBankConnectionError"
    /\ Len(fetch.all_data) = ACCESSIONS_PER_REQUEST
    /\ Len(fetch.wire) > 2
    /\ in_flight = {}
    /\ sequences[1] = {GenbankRecord(1, 1)}

\* C24: the TaxonomyNode table never holds two rows of one id; a row once
\* stored keeps its rank and scientific name; get_or_create of an id that
\* has a row returns that row and stores nothing; and this holds however
\* the calls of two workers interleave.
C24_OneNodePerId ==
    [][/\ \A n, m \in nodes' : n.id = m.id => n = m
       /\ nodes \subseteq nodes'
       /\ \A call \in in_flight :
             (result'.op = "get_or_create" /\ result'.db = call.worker
              /\ call \notin in_flight') =>
                 /\ result'.returned = NodesWithId(Head(call.todo).id)'
                 /\ NodesWithId(Head(call.todo).id) # {} =>
                        (nodes' = nodes /\ result'.count = 0)]_vars

\* Two workers both looked up id 1, found no row and went on to insert;
\* one insert has been made, the other worker is still about to insert.
C24_BothAboutToCreate ==
    /\ \E c \in in_flight :
          /\ c.pc = "create"
          /\ Head(c.todo).id = 1
          /\ NodesWithId(1) # {}
          /\ \A n \in NodesWithId(1) : n.scientific_name # Head(c.todo).scientific_name
    /\ result.op = "get_or_create" /\ result.count = 1

\* C25: when the record was fetched and the lineage request then fails with
\* TaxonomyConnectionError, a save_sequence call that suppresses errors
\* returns the instance with the fetched accession number, version tag and
\* sequence.
C25_FetchedDataSurvivesTaxonomyFailure ==
    [][\A obj \in Instances(1), commit \in BOOLEAN, k \in Revisions :
          save_sequence_instance(1, obj, commit, FALSE, "ok", k,
                                 "TaxonomyConnectionError") =>
              \E o \in result'.returned :
                  /\ o.accession_number = obj.accession_number
                  /\ o.version = GenbankRecord(obj.accession_number, k).version
                  /\ o.dna_sequence = GenbankRecord(obj.accession_number, k).dna_sequence]_vars

\* C26: seals of snapshots of one library exclude each other: a seal that
\* saves a snapshot not sealed before has worked out the version against
\* the snapshot that is the latest sealed one of the library at that
\* moment, and no other sealed snapshot of the library has the version it
\* assigns.
C26_SealsOfLibraryExclusive ==
    [][\A call \in in_flight :
          (seal_end(call) /\ ~locked[call.db]) =>
             /\ call.lastPublished \in
                   (IF latest(locked, version, LibraryOf(call.db)) = {} THEN {NoLast}
                    ELSE latest(locked, version, LibraryOf(call.db)))
             /\ \A e \in Dbs \ {call.db} :
                   (LibraryOf(e) = LibraryOf(call.db) /\ locked'[e]) =>
                       version'[e] # version'[call.db]]_vars

\* C27: create_blastdb called without an instance (database=None) returns a
\* new unlocked snapshot - the call ends without an error - and leaves the
\* rows of base with base.
C27_CreateWithoutInstanceReturns ==
    [][\A base \in Dbs \cup {NoDb}, additional_accessions \in SUBSET Acc :
          create_blastdb(NoDb, base, additional_accessions, FALSE) =>
              /\ result'.op = "create_blastdb"
              /\ result'.error = "none"
              /\ sequences' = sequences]_vars

\* The notes name a type: some piece of them is 'paratype' or 'holotype' in
\* whatever case.
NamesType(notes) == \E i \in DOMAIN notes : Lower(notes[i]) \in {"paratype", "holotype"}

\* A /type_material qualifier that is there with the value ''.
EmptyValued(qualifiers) ==
    "type_material" \in qualifiers.names /\ qualifiers.type_material[1] = <<>>

\* C28: for a record with a source feature the type material is the value
\* of the /type_material qualifier when there is one (with a value that is
\* not ''); without one, and with
\* notes that name a paratype or holotype, the notes without a leading
\* 'type: ' (in whatever case); and empty in every other case.
C28_TypeMaterialInference ==
    [][\A qualifiers \in SourceQualifiers :
          (parse_gb_handle(TRUE, qualifiers) /\ ~EmptyValued(qualifiers)) =>
             \A record \in result'.returned :
                record.type_material =
                   IF "type_material" \in qualifiers.names
                   THEN qualifiers.type_material[1]
                   ELSE IF "type_material" \notin qualifiers.names
                           /\ "note" \in qualifiers.names
                           /\ NamesType(Join(qualifiers.note))
                   THEN IF Lower(Join(qualifiers.note)[1]) = "type: "
                        THEN Tail(Join(qualifiers.note))
                        ELSE Join(qualifiers.note)
                   ELSE <<>>]_vars

C30_DiffIndependentOfHistory ==
    [][\A d \in Dbs : \A p \in PreviousOf(d) :
          SealOf(d)' =>
            LET fresh == calculate_update_summary(sequences[p], sequences[d],
                                                  SequenceUpdateSummary)
            IN /\ summary' = fresh
               /\ version'[d] = version_nums(version[p], fresh)]_vars
====
